---- MODULE Spec2Model ----
(***************************************************************************)
(* Elemental Breakout (src/src/main.cpp): the reaction engine, the event   *)
(* scheduler and the game loop.                                            *)
(*                                                                         *)
(* Abstractions.  Time is counted in hundredths of a second (0.18f is 18). *)
(* A colour index stands for an element: -1 is None, 0..4 the palette.     *)
(* Rectangles and rendered colours are left out; what the geometry tests   *)
(* (CheckCollisionCircleRec, the wall tests, the fall test) answer in a    *)
(* frame is an input of that frame.  A velocity is the pair of the signs   *)
(* of its components.  ball.speed is the exact fraction <<num, den>>.      *)
(***************************************************************************)
EXTENDS Integers, Sequences, FiniteSets, TLC

VARIABLES bricks, ball, paddle, reactionEvents, score, lives, gameOver,
          gameWon, paused, showHowTo, obs

vars == <<bricks, ball, paddle, reactionEvents, score, lives, gameOver,
          gameWon, paused, showHowTo, obs>>

----------------------------------------------------------------------------
(* Program constants.                                                      *)

BrickCols == 12
BrickRows == 7
BrickPaletteCount == 5
ColorIndexRed == 0
ColorIndexBlue == 1
ColorIndexGreen == 2
ColorIndexPurple == 3
ColorIndexLightBlue == 4
OverloadAoEDelay == 18
SurgeChainStepDelay == 8
FreezeDuration == 200
InitialLives == 1
ChunkMin == 3
ChunkMax == 6

NoColor == 0 - 1

Palette == 0 .. (BrickPaletteCount - 1)
Elements == {NoColor} \cup Palette

(* Bounds of the model.                                                    *)
MaxBricks == 3
MaxScore == 3
MaxWaves == 1
MaxEvents == 2

(* The cells of the 7 x 12 grid where the generator is allowed to place a  *)
(* brick; in every other cell its gap draw comes out "gap".                *)
Arena == (0 .. 2) \X (0 .. (ChunkMin - 1))

(* The frame times GetFrameTime is allowed to return.                      *)
DtValues == {8, 10, 100}

----------------------------------------------------------------------------
(* Bricks.                                                                 *)

NewBrick(row, col, colorIdx) ==
    [row |-> row, col |-> col, active |-> TRUE, colorIndex |-> colorIdx,
     hitPoints |-> 2, cracked |-> FALSE, frozen |-> FALSE]

(* GetBrickAt: the index of the first brick at (row, col), 0 for nullptr.  *)
GetBrickAt(bs, row, col) ==
    LET hits == {i \in 1 .. Len(bs) : bs[i].row = row /\ bs[i].col = col}
    IN  IF hits = {} THEN 0 ELSE CHOOSE i \in hits : \A j \in hits : i <= j

DestroyBrickNoReset(b) ==
    [b EXCEPT !.active = FALSE, !.cracked = FALSE, !.colorIndex = NoColor]

DestroyBrick(b) ==
    [b EXCEPT !.active = FALSE, !.hitPoints = 0, !.cracked = FALSE,
              !.frozen = FALSE, !.colorIndex = NoColor]

Directions == << <<1, 0>>, <<0 - 1, 0>>, <<0, 1>>, <<0, 0 - 1>> >>

Neighbours(row, col) ==
    [k \in 1 .. Len(Directions) |->
        <<row + Directions[k][1], col + Directions[k][2]>>]

OffGrid(row, col) ==
    row < 0 \/ row >= BrickRows \/ col < 0 \/ col >= BrickCols

FreezeVisitKeepsHitPoints(b) ==
    [b EXCEPT !.colorIndex = NoColor, !.cracked = FALSE, !.frozen = TRUE]

(* The assignments FreezeConnectedBricks makes to a brick it visits.       *)
FreezeVisit(b) ==
    [b EXCEPT !.colorIndex = NoColor, !.cracked = FALSE, !.hitPoints = 1,
              !.frozen = TRUE]

FreezeStopsIgnoringColor(b, target) == ~b.active

FreezeStops(b, target) == ~b.active \/ b.colorIndex # target

RECURSIVE FreezeLoop(_, _, _, _, _)
FreezeLoop(bs, toVisit, visited, target, frozenCount) ==
    IF toVisit = <<>> THEN [bricks |-> bs, count |-> frozenCount]
    ELSE LET row == Head(toVisit)[1]
             col == Head(toVisit)[2]
             rest == Tail(toVisit)
         IN  IF OffGrid(row, col) \/ <<row, col>> \in visited
             THEN FreezeLoop(bs, rest, visited, target, frozenCount)
             ELSE LET i == GetBrickAt(bs, row, col)
                      seen == visited \cup {<<row, col>>}
                  IN  IF i = 0 \/ FreezeStops(bs[i], target)
                      THEN FreezeLoop(bs, rest, seen, target, frozenCount)
                      ELSE FreezeLoop([bs EXCEPT ![i] = FreezeVisit(bs[i])],
                                      rest \o Neighbours(row, col), seen,
                                      target, frozenCount + 1)

FreezeConnectedBricks(bs, startRow, startCol, targetColorIndex) ==
    IF targetColorIndex < 0 THEN [bricks |-> bs, count |-> 0]
    ELSE FreezeLoop(bs, << <<startRow, startCol>> >>, {}, targetColorIndex, 0)

RECURSIVE ShatterLoop(_, _, _, _)
ShatterLoop(bs, toVisit, visited, shattered) ==
    IF toVisit = <<>> THEN [bricks |-> bs, count |-> shattered]
    ELSE LET row == Head(toVisit)[1]
             col == Head(toVisit)[2]
             rest == Tail(toVisit)
         IN  IF OffGrid(row, col) \/ <<row, col>> \in visited
             THEN ShatterLoop(bs, rest, visited, shattered)
             ELSE LET i == GetBrickAt(bs, row, col)
                      seen == visited \cup {<<row, col>>}
                  IN  IF i = 0 \/ ~bs[i].active \/ ~bs[i].frozen
                      THEN ShatterLoop(bs, rest, seen, shattered)
                      ELSE ShatterLoop([bs EXCEPT ![i] = DestroyBrick(bs[i])],
                                       rest \o Neighbours(row, col), seen,
                                       shattered + 1)

ShatterNothing(bs, startRow, startCol) == [bricks |-> bs, count |-> 0]

ShatterFrozenNeighbors(bs, startRow, startCol) ==
    ShatterLoop(bs, Neighbours(startRow, startCol), {}, 0)

Max(a, b) == IF a >= b THEN a ELSE b

InfuseVisitKeepsHitPoints(b, newColorIndex) ==
    [b EXCEPT !.colorIndex = newColorIndex, !.cracked = FALSE,
              !.frozen = FALSE]

InfuseVisit(b, newColorIndex) ==
    [b EXCEPT !.colorIndex = newColorIndex, !.cracked = FALSE,
              !.hitPoints = Max(b.hitPoints, 2), !.frozen = FALSE]

RECURSIVE InfuseLoop(_, _, _, _, _)
InfuseLoop(bs, toVisit, visited, newColorIndex, infused) ==
    IF toVisit = <<>> THEN [bricks |-> bs, count |-> infused]
    ELSE LET row == Head(toVisit)[1]
             col == Head(toVisit)[2]
             rest == Tail(toVisit)
         IN  IF OffGrid(row, col) \/ <<row, col>> \in visited
             THEN InfuseLoop(bs, rest, visited, newColorIndex, infused)
             ELSE LET i == GetBrickAt(bs, row, col)
                      seen == visited \cup {<<row, col>>}
                  IN  IF i = 0 \/ ~bs[i].active
                             \/ bs[i].colorIndex # ColorIndexGreen
                      THEN InfuseLoop(bs, rest, seen, newColorIndex, infused)
                      ELSE InfuseLoop(
                               [bs EXCEPT ![i] = InfuseVisit(bs[i], newColorIndex)],
                               rest \o Neighbours(row, col), seen,
                               newColorIndex, infused + 1)

InfuseAdjacentBricks(bs, startRow, startCol, newColorIndex) ==
    InfuseLoop(bs, << <<startRow, startCol>> >>, {}, newColorIndex, 0)

----------------------------------------------------------------------------
(* Deferred reaction events.                                               *)

OverloadAoE == "OverloadAoE"
SurgeChain == "SurgeChain"

ReactionEvent(row, col, timer, kind) ==
    [row |-> row, col |-> col, timer |-> timer, kind |-> kind]

SurgeDirections == << <<1, 1>>, <<0 - 1, 0 - 1>>, <<1, 0 - 1>>, <<0 - 1, 1>> >>

SurgeTimerFlat(distance) == SurgeChainStepDelay

SurgeTimer(distance) == SurgeChainStepDelay * distance

RECURSIVE SurgeRayStopsAtGap(_, _, _, _, _, _)
SurgeRayStopsAtGap(events, bs, row, col, dir, distance) ==
    IF OffGrid(row, col) THEN events
    ELSE LET i == GetBrickAt(bs, row, col)
         IN  IF i # 0 /\ bs[i].active
             THEN SurgeRayStopsAtGap(
                      Append(events, ReactionEvent(row, col,
                                         SurgeTimer(distance), SurgeChain)),
                      bs, row + dir[1], col + dir[2], dir, distance + 1)
             ELSE events

(* The while loop of ScheduleSurgeChain along one direction.               *)
RECURSIVE SurgeRay(_, _, _, _, _, _)
SurgeRay(events, bs, row, col, dir, distance) ==
    IF OffGrid(row, col) THEN events
    ELSE LET i == GetBrickAt(bs, row, col)
             pushed == IF i # 0 /\ bs[i].active
                       THEN Append(events, ReactionEvent(row, col,
                                       SurgeTimer(distance), SurgeChain))
                       ELSE events
         IN  SurgeRay(pushed, bs, row + dir[1], col + dir[2], dir, distance + 1)

RECURSIVE SurgeRays(_, _, _, _, _)
SurgeRays(events, bs, startRow, startCol, k) ==
    IF k > Len(SurgeDirections) THEN events
    ELSE SurgeRays(SurgeRay(events, bs, startRow + SurgeDirections[k][1],
                            startCol + SurgeDirections[k][2],
                            SurgeDirections[k], 1),
                   bs, startRow, startCol, k + 1)

ScheduleSurgeChain(events, bs, startRow, startCol) ==
    SurgeRays(events, bs, startRow, startCol, 1)

Abs(n) == IF n < 0 THEN 0 - n ELSE n

InBlastCross(b, centerRow, centerCol) ==
    Abs(b.row - centerRow) + Abs(b.col - centerCol) <= 1

InBlast(b, centerRow, centerCol) ==
    Abs(b.row - centerRow) <= 1 /\ Abs(b.col - centerCol) <= 1

ApplyOverloadedAoE(bs, centerRow, centerCol) ==
    LET hit == {i \in 1 .. Len(bs) :
                   bs[i].active /\ InBlast(bs[i], centerRow, centerCol)}
    IN  [bricks |-> [i \in 1 .. Len(bs) |->
                        IF i \in hit THEN DestroyBrick(bs[i]) ELSE bs[i]],
         count |-> Cardinality(hit)]

CountActiveBricks(bs) == Cardinality({i \in 1 .. Len(bs) : bs[i].active})

ChainStepHitsAnyBrick(bs, i) == i # 0

(* Line 488: a chain step acts on a brick that exists and is active.       *)
ChainStepHits(bs, i) == i # 0 /\ bs[i].active

(* The effect of one expired event on the bricks (the body of the if).     *)
ApplyEvent(bs, e) ==
    IF e.kind = OverloadAoE THEN ApplyOverloadedAoE(bs, e.row, e.col)
    ELSE LET i == GetBrickAt(bs, e.row, e.col)
         IN  IF ChainStepHits(bs, i)
             THEN [bricks |-> [bs EXCEPT ![i] = DestroyBrick(bs[i])], count |-> 1]
             ELSE [bricks |-> bs, count |-> 0]

ExpiredStrictly(e) == e.timer < 0

Expired(e) == e.timer <= 0

(* The erase loop of ResolveReactionEvents over the decremented events.    *)
RECURSIVE ResolveLoop(_, _, _, _)
ResolveLoop(todo, kept, bs, removed) ==
    IF todo = <<>> THEN [events |-> kept, bricks |-> bs, removed |-> removed]
    ELSE IF Expired(Head(todo))
         THEN LET r == ApplyEvent(bs, Head(todo))
              IN  ResolveLoop(Tail(todo), kept, r.bricks, removed + r.count)
         ELSE ResolveLoop(Tail(todo), Append(kept, Head(todo)), bs, removed)

ResolveReactionEvents(dt, events, bs) ==
    ResolveLoop([k \in 1 .. Len(events) |->
                    [events[k] EXCEPT !.timer = events[k].timer - dt]],
                <<>>, bs, 0)

----------------------------------------------------------------------------
(* The ball and the paddle.                                                *)

ZeroVelocity == <<0, 0>>

InitialSpeed == <<420, 1>>

ResetBallKeepsElement(b) ==
    [b EXCEPT !.inPlay = FALSE, !.overloaded = FALSE, !.superconduct = FALSE,
              !.frozen = FALSE, !.freezeReady = FALSE, !.freezeTimer = 0,
              !.storedVelocity = ZeroVelocity, !.vaporizeReady = FALSE,
              !.pos = "paddle", !.velocity = ZeroVelocity]

ResetBallOnPaddle(b) ==
    [b EXCEPT !.inPlay = FALSE, !.overloaded = FALSE, !.superconduct = FALSE,
              !.frozen = FALSE, !.freezeReady = FALSE, !.freezeTimer = 0,
              !.storedVelocity = ZeroVelocity, !.vaporizeReady = FALSE,
              !.colorIndex = NoColor, !.pos = "paddle",
              !.velocity = ZeroVelocity]

(* direction is the outcome of GetRandomValue(0, 1): -1 or 1.              *)
LaunchBall(b, direction) ==
    IF b.inPlay THEN b
    ELSE [b EXCEPT !.velocity = <<direction, 0 - 1>>, !.inPlay = TRUE]

IsPairInOrder(a, b, x, y) == a = x /\ b = y

IsPair(a, b, x, y) == (a = x /\ b = y) \/ (a = y /\ b = x)

PaddleBounceSticky(b, pad, relative) ==
    LET bounced == <<relative, 0 - 1>>
        freezeTrigger ==
            IsPair(b.colorIndex, pad.colorIndex, ColorIndexBlue,
                   ColorIndexLightBlue)
    IN  [b EXCEPT !.pos = "field",
                  !.colorIndex = pad.colorIndex,
                  !.overloaded =
                      b.overloaded \/ IsPair(b.colorIndex, pad.colorIndex,
                                             ColorIndexPurple, ColorIndexRed),
                  !.superconduct =
                      b.superconduct \/ IsPair(b.colorIndex, pad.colorIndex,
                                               ColorIndexPurple,
                                               ColorIndexLightBlue),
                  !.freezeReady = freezeTrigger,
                  !.frozen = freezeTrigger,
                  !.freezeTimer = IF freezeTrigger THEN FreezeDuration ELSE 0,
                  !.storedVelocity =
                      IF freezeTrigger THEN bounced ELSE ZeroVelocity,
                  !.velocity = IF freezeTrigger THEN ZeroVelocity ELSE bounced,
                  !.vaporizeReady = FALSE]

(* The ball after a contact with the paddle; relative is the sign of the   *)
(* ball's offset from the paddle centre.                                   *)
PaddleBounce(b, pad, relative) ==
    LET bounced == <<relative, 0 - 1>>
        overloadedTrigger ==
            IsPair(b.colorIndex, pad.colorIndex, ColorIndexPurple, ColorIndexRed)
        superconductTrigger ==
            IsPair(b.colorIndex, pad.colorIndex, ColorIndexPurple,
                   ColorIndexLightBlue)
        freezeTrigger ==
            IsPair(b.colorIndex, pad.colorIndex, ColorIndexBlue,
                   ColorIndexLightBlue)
        newColor == IF pad.colorIndex >= 0 /\ pad.colorIndex < BrickPaletteCount
                    THEN pad.colorIndex ELSE NoColor
    IN  [b EXCEPT !.pos = "field",
                  !.colorIndex = newColor,
                  !.overloaded = overloadedTrigger,
                  !.superconduct = superconductTrigger,
                  !.freezeReady = freezeTrigger,
                  !.frozen = freezeTrigger,
                  !.freezeTimer = IF freezeTrigger THEN FreezeDuration ELSE 0,
                  !.storedVelocity =
                      IF freezeTrigger THEN bounced ELSE ZeroVelocity,
                  !.velocity = IF freezeTrigger THEN ZeroVelocity ELSE bounced,
                  !.vaporizeReady = FALSE]

(* hit: CheckCollisionCircleRec(ball.position, ball.radius, paddle.rect).  *)
HandleBallPaddleCollision(b, pad, hit, relative) ==
    IF ~b.inPlay \/ ~hit THEN [ball |-> b, hitPaddle |-> FALSE]
    ELSE [ball |-> PaddleBounce(b, pad, relative), hitPaddle |-> TRUE]

(* wallX, wallTop: the outcomes of the two wall tests.                     *)
HandleBallWallCollisions(b, wallX, wallTop) ==
    [b EXCEPT !.velocity =
        << IF wallX THEN 0 - b.velocity[1] ELSE b.velocity[1],
           IF wallTop THEN 0 - b.velocity[2] ELSE b.velocity[2] >>]

HandlePaddleColorInput(pad, colorKey) ==
    IF colorKey \in 1 .. BrickPaletteCount
    THEN [pad EXCEPT !.colorIndex = colorKey - 1]
    ELSE pad

----------------------------------------------------------------------------
(* HandleBallBrickCollision.                                               *)

StruckIndexLast(bs, overlap) ==
    LET hits == {i \in 1 .. Len(bs) :
                    bs[i].active /\ <<bs[i].row, bs[i].col>> \in overlap}
    IN  IF hits = {} THEN 0 ELSE CHOOSE i \in hits : \A j \in hits : i >= j

(* The brick the for loop stops at: the first active brick, in array       *)
(* order, that the ball overlaps; 0 when the loop runs to its end.         *)
(* overlap is the set of cells whose rectangle the ball's circle meets.    *)
StruckIndex(bs, overlap) ==
    LET hits == {i \in 1 .. Len(bs) :
                    bs[i].active /\ <<bs[i].row, bs[i].col>> \in overlap}
    IN  IF hits = {} THEN 0 ELSE CHOOSE i \in hits : \A j \in hits : i <= j

(* The bounce: exactly one component is negated; axis names which one the  *)
(* approach tests and the penetration fallback pick.                       *)
BrickBounce(velocity, axis) ==
    IF axis = "x" THEN <<0 - velocity[1], velocity[2]>>
    ELSE <<velocity[1], 0 - velocity[2]>>

TriggeredSwirlOnGreen(ballColor, brickColor) ==
    ballColor = ColorIndexGreen /\ brickColor = ColorIndexGreen

TriggeredSwirl(ballColor, brickColor) ==
    ballColor = ColorIndexGreen /\ brickColor # ColorIndexGreen
        /\ brickColor # NoColor

VaporizeNever(ballColor, brickColor) == FALSE

VaporizeTriggered(ballColor, brickColor) ==
    ballColor = ColorIndexBlue /\ brickColor = ColorIndexRed

LiquefyTriggered(ballColor, brickColor) ==
    ~VaporizeTriggered(ballColor, brickColor)
        /\ ballColor = ColorIndexLightBlue /\ brickColor = ColorIndexRed

SurgeTriggered(ballColor, brickColor) ==
    ~VaporizeTriggered(ballColor, brickColor)
        /\ ~LiquefyTriggered(ballColor, brickColor)
        /\ IsPair(ballColor, brickColor, ColorIndexPurple, ColorIndexBlue)

InfuseAttempted(ballColor, brickColor) ==
    ~VaporizeTriggered(ballColor, brickColor)
        /\ ~LiquefyTriggered(ballColor, brickColor)
        /\ ~SurgeTriggered(ballColor, brickColor)
        /\ ballColor # ColorIndexGreen /\ brickColor = ColorIndexGreen

MeltBrick(b) ==
    [b EXCEPT !.frozen = FALSE, !.colorIndex = NoColor, !.hitPoints = 1,
              !.cracked = FALSE]

LiquefyBrickKeepsCrack(b) ==
    [b EXCEPT !.colorIndex = ColorIndexBlue, !.hitPoints = Max(b.hitPoints, 2)]

LiquefyBrick(b) ==
    [b EXCEPT !.colorIndex = ColorIndexBlue, !.cracked = FALSE,
              !.hitPoints = Max(b.hitPoints, 2)]

DamageBrickUnmarked(b) ==
    IF b.hitPoints - 1 <= 0 THEN DestroyBrick([b EXCEPT !.hitPoints = b.hitPoints - 1])
    ELSE [b EXCEPT !.hitPoints = b.hitPoints - 1]

(* The default branch: one point of damage.                                *)
DamageBrick(b) ==
    IF b.hitPoints - 1 <= 0 THEN DestroyBrick([b EXCEPT !.hitPoints = b.hitPoints - 1])
    ELSE [b EXCEPT !.hitPoints = b.hitPoints - 1, !.cracked = TRUE]

AoEEventDelayed(row, col) ==
    ReactionEvent(row, col, OverloadAoEDelay + SurgeChainStepDelay, OverloadAoE)

AoEEvent(row, col) == ReactionEvent(row, col, OverloadAoEDelay, OverloadAoE)

CountBrokenStruckOnly(b, shatter, i, events, destroyedThisHit, t) ==
    [ball |-> b, bricks |-> shatter.bricks,
     events |-> IF destroyedThisHit /\ t.surge
                THEN ScheduleSurgeChain(events, shatter.bricks,
                                        shatter.bricks[i].row,
                                        shatter.bricks[i].col)
                ELSE events,
     bricksBroken |-> IF destroyedThisHit THEN 1 ELSE 0,
     struck |-> i, reaction |-> t]

(* Lines 807-823: the count of the contact, the shatter chain and the     *)
(* surge chain. t holds the triggers of the contact.                       *)
CountBroken(b, shatter, i, events, destroyedThisHit, t) ==
    [ball |-> b, bricks |-> shatter.bricks,
     events |-> IF destroyedThisHit /\ t.surge
                THEN ScheduleSurgeChain(events, shatter.bricks,
                                        shatter.bricks[i].row,
                                        shatter.bricks[i].col)
                ELSE events,
     bricksBroken |-> IF destroyedThisHit THEN 1 + shatter.count ELSE 0,
     struck |-> i, reaction |-> t]

(* Lines 786-812: the explosions of Swirl and Overload are scheduled, in   *)
(* this order, overloaded is cleared, and a destroyed frozen brick takes   *)
(* its frozen neighbours with it.                                          *)
ScheduleExplosions(b, bs, i, events, destroyedThisHit, t) ==
    LET row == bs[i].row
        col == bs[i].col
        ev1 == IF t.swirl THEN Append(events, AoEEvent(row, col)) ELSE events
        ev2 == IF t.overload THEN Append(ev1, AoEEvent(row, col)) ELSE ev1
    IN  CountBroken(IF t.overload THEN [b EXCEPT !.overloaded = FALSE] ELSE b,
                    IF destroyedThisHit /\ t.shatter
                    THEN ShatterFrozenNeighbors(bs, row, col)
                    ELSE [bricks |-> bs, count |-> 0],
                    i, ev2, destroyedThisHit, t)

(* Lines 762-784: what becomes of the struck brick.                        *)
HitBrick(brick, ballColor, t) ==
    IF t.instantBreak THEN DestroyBrick(brick)
    ELSE IF t.liquefy THEN LiquefyBrick(brick)
    ELSE IF t.infuse THEN [brick EXCEPT !.colorIndex = ballColor]
    ELSE DamageBrick(brick)

(* Lines 746-784: a frozen brick melts under a Red ball and is marked for  *)
(* the shatter chain under any other; then the brick takes the hit.        *)
ResolveHit(b, infusion, i, events, t) ==
    LET bs2 == infusion.bricks
        wasFrozen == bs2[i].frozen
        melt == wasFrozen /\ b.colorIndex = ColorIndexRed
        shatter == wasFrozen /\ ~melt
        instantBreak == t.swirl \/ t.overload \/ t.vaporize \/ t.surge
                            \/ shatter
        infuse == infusion.count > 0
        default == ~instantBreak /\ ~t.liquefy /\ ~infuse
        thawed == IF melt THEN MeltBrick(bs2[i]) ELSE bs2[i]
    IN  ScheduleExplosions(
            b,
            [bs2 EXCEPT ![i] =
                HitBrick(thawed, b.colorIndex,
                         [instantBreak |-> instantBreak, liquefy |-> t.liquefy,
                          infuse |-> infuse])],
            i, events,
            instantBreak \/ (default /\ thawed.hitPoints - 1 <= 0),
            [freeze |-> t.freeze, swirl |-> t.swirl, overload |-> t.overload,
             vaporize |-> t.vaporize, liquefy |-> t.liquefy,
             surge |-> t.surge, infuse |-> infuse, melt |-> melt,
             shatter |-> shatter, default |-> default])

(* Lines 712-744: the triggers are read from the ball and from the brick   *)
(* as the freeze step left it, and Infuse recolours the Green neighbours.  *)
ReactToBrick(b, bs1, i, events, froze) ==
    LET brickColor == bs1[i].colorIndex
    IN  ResolveHit(
            b,
            IF InfuseAttempted(b.colorIndex, brickColor)
            THEN InfuseAdjacentBricks(bs1, bs1[i].row, bs1[i].col, b.colorIndex)
            ELSE [bricks |-> bs1, count |-> 0],
            i, events,
            [freeze |-> froze,
             swirl |-> TriggeredSwirl(b.colorIndex, brickColor),
             overload |-> b.overloaded,
             vaporize |-> VaporizeTriggered(b.colorIndex, brickColor),
             liquefy |-> LiquefyTriggered(b.colorIndex, brickColor),
             surge |-> SurgeTriggered(b.colorIndex, brickColor)])

BounceOffBrickAlways(b, axis) ==
    [b EXCEPT !.velocity = BrickBounce(b.velocity, axis), !.pos = "field"]

(* Lines 650-706: the ball bounces off the brick unless it superconducts.  *)
BounceOffBrick(b, axis) ==
    IF ~b.superconduct
    THEN [b EXCEPT !.velocity = BrickBounce(b.velocity, axis), !.pos = "field"]
    ELSE b

StrikeBrickKeepsFlag(b, bs, i, axis, events) ==
    LET froze == b.freezeReady /\ bs[i].colorIndex # NoColor
    IN  ReactToBrick(
            BounceOffBrick([b EXCEPT !.freezeReady = b.freezeReady /\ ~froze],
                           axis),
            IF froze
            THEN FreezeConnectedBricks(bs, bs[i].row, bs[i].col,
                                       bs[i].colorIndex).bricks
            ELSE bs,
            i, events, froze)

(* The body of the for loop for the struck brick bs[i]; lines 638-648: a   *)
(* ball carrying freezeReady freezes the cluster of the brick and loses    *)
(* the flag.                                                               *)
StrikeBrick(b, bs, i, axis, events) ==
    LET froze == b.freezeReady /\ bs[i].colorIndex # NoColor
    IN  ReactToBrick(
            BounceOffBrick([b EXCEPT !.freezeReady = FALSE], axis),
            IF froze
            THEN FreezeConnectedBricks(bs, bs[i].row, bs[i].col,
                                       bs[i].colorIndex).bricks
            ELSE bs,
            i, events, froze)

NoReaction ==
    [freeze |-> FALSE, swirl |-> FALSE, overload |-> FALSE, vaporize |-> FALSE,
     liquefy |-> FALSE, surge |-> FALSE, infuse |-> FALSE, melt |-> FALSE,
     shatter |-> FALSE, default |-> FALSE]

HandleBallBrickCollision(b, bs, overlap, axis, events) ==
    LET i == StruckIndex(bs, overlap)
    IN  IF ~b.inPlay \/ i = 0
        THEN [ball |-> b, bricks |-> bs, events |-> events, bricksBroken |-> 0,
              struck |-> 0, reaction |-> NoReaction]
        ELSE StrikeBrick(b, bs, i, axis, events)

----------------------------------------------------------------------------
(* The states a run passes through, from which the handler-level           *)
(* specifications start.                                                   *)

BrickState(active, colorIdx, hitPoints, cracked, frozen) ==
    [active |-> active, colorIndex |-> colorIdx, hitPoints |-> hitPoints,
     cracked |-> cracked, frozen |-> frozen]

Fresh(c) == BrickState(TRUE, c, 2, FALSE, FALSE)
Cracked(c) == BrickState(TRUE, c, 1, TRUE, FALSE)
FrozenState == BrickState(TRUE, NoColor, 1, FALSE, TRUE)
Destroyed == BrickState(FALSE, NoColor, 0, FALSE, FALSE)

CellRank(cell) == cell[1] * BrickCols + cell[2]

(* The cells of S in the order CreateBricks pushes them: row by row.       *)
RECURSIVE CellSeq(_)
CellSeq(S) ==
    IF S = {} THEN <<>>
    ELSE LET m == CHOOSE c \in S : \A d \in S : CellRank(c) <= CellRank(d)
         IN  <<m>> \o CellSeq(S \ {m})

CellSets(cells) == {S \in SUBSET cells : Cardinality(S) <= MaxBricks}

MakeField(S, st) ==
    LET cs == CellSeq(S)
    IN  [k \in 1 .. Len(cs) |->
            [row |-> cs[k][1], col |-> cs[k][2], active |-> st[k].active,
             colorIndex |-> st[k].colorIndex, hitPoints |-> st[k].hitPoints,
             cracked |-> st[k].cracked, frozen |-> st[k].frozen]]

(* The brick vectors of at most MaxBricks bricks on the given cells whose   *)
(* bricks are each in one of the given states.                             *)
FieldsOn(cells, states) ==
    UNION {{MakeField(S, st) : st \in [1 .. Cardinality(S) -> states]} :
              S \in CellSets(cells)}

SceneFields(states) == FieldsOn(Arena, states)

NewBall ==
    [inPlay |-> FALSE, colorIndex |-> NoColor, overloaded |-> FALSE,
     superconduct |-> FALSE, frozen |-> FALSE, freezeReady |-> FALSE,
     freezeTimer |-> 0, velocity |-> ZeroVelocity,
     storedVelocity |-> ZeroVelocity, speed |-> InitialSpeed,
     vaporizeReady |-> FALSE, pos |-> "paddle"]

UpdateFrozenBallStraightUp(b, dt) ==
    IF b.inPlay /\ b.frozen
    THEN LET t == b.freezeTimer - dt
         IN  IF t <= 0
             THEN [b EXCEPT !.freezeTimer = t, !.pos = "paddle",
                            !.frozen = FALSE, !.velocity = <<0, 0 - 1>>,
                            !.storedVelocity = ZeroVelocity]
             ELSE [b EXCEPT !.freezeTimer = t, !.pos = "paddle"]
    ELSE b

(* main, lines 952-966: the frozen ball counts down on the paddle and is   *)
(* released with its stored velocity.                                      *)
UpdateFrozenBall(b, dt) ==
    IF b.inPlay /\ b.frozen
    THEN LET t == b.freezeTimer - dt
         IN  IF t <= 0
             THEN [b EXCEPT !.freezeTimer = t, !.pos = "paddle",
                            !.frozen = FALSE,
                            !.velocity = IF b.storedVelocity = ZeroVelocity
                                         THEN <<0, 0 - 1>>
                                         ELSE b.storedVelocity,
                            !.storedVelocity = ZeroVelocity]
             ELSE [b EXCEPT !.freezeTimer = t, !.pos = "paddle"]
    ELSE b

(* A ball in flight: launched, or launched, coloured c by an earlier       *)
(* bounce and bounced again on a paddle of colour p (and thawed, when      *)
(* that bounce froze it).                                                  *)
LaunchedBall == LaunchBall(ResetBallOnPaddle(NewBall), 1)

BouncedBall(c, p) ==
    LET b == PaddleBounce([LaunchedBall EXCEPT !.colorIndex = c],
                          [colorIndex |-> p], 1)
        thawed == UpdateFrozenBall(b, FreezeDuration)
    IN  [thawed EXCEPT !.freezeTimer = 0, !.pos = "field"]

(* What a frame keeps of its paddle bounce: the ball's element and         *)
(* superconduct flag before the call, and the ball after it.               *)
NoBounce ==
    [hitPaddle |-> FALSE,
     before |-> [colorIndex |-> NoColor, superconduct |-> FALSE],
     relative |-> 0, ball |-> NewBall]

NoHit ==
    [struck |-> 0, bricksBroken |-> 0, reaction |-> NoReaction,
     bricks |-> <<>>, events |-> <<>>, bounce |-> NoBounce,
     overlap |-> {}, axis |-> "y", freezeReady |-> FALSE]

NoFreeze == [was |-> FALSE, before |-> NewBall, after |-> NewBall, dt |-> 0]

(* The outcomes of the random draws of one call of CreateBricks: size[k]   *)
(* is the size drawn for the k-th chunk of a row, the colour drawn for the *)
(* k-th chunk of row r is (base + r + k) mod BrickPaletteCount, the chunk  *)
(* numbered neutralAt is drawn neutral, and the gap draw comes out "no     *)
(* gap" exactly for the cells of the set cells.                            *)
NoDraws == [size |-> <<>>, base |-> 0, neutralAt |-> 0, cells |-> {}]

NoObs ==
    [op |-> "init", pre |-> [bricks |-> <<>>, events |-> <<>>, score |-> 0,
                             lives |-> 0, ball |-> NewBall],
     hit |-> NoHit, dt |-> 0, elapsed |-> 0, removed |-> 0,
     center |-> <<0, 0>>, fell |-> FALSE, restarted |-> FALSE,
     cleared |-> "none", freeze |-> NoFreeze, draws |-> NoDraws,
     mid |-> [lives |-> 0, gameOver |-> FALSE, ball |-> NewBall]]

PreState ==
    [bricks |-> bricks, events |-> reactionEvents, score |-> score,
     lives |-> lives, ball |-> ball]

(* A run in mid-wave: help screen dismissed, ball b in flight, field bs,   *)
(* no event pending.                                                       *)
InitScene(bs, b) ==
    /\ bricks = bs
    /\ ball = b
    /\ paddle = [colorIndex |-> ColorIndexPurple]
    /\ reactionEvents = <<>>
    /\ score = 0
    /\ lives = InitialLives
    /\ gameOver = FALSE
    /\ gameWon = FALSE
    /\ paused = FALSE
    /\ showHowTo = FALSE
    /\ obs = NoObs

(* main, lines 990 and 1010: one brick contact of a moving ball; the ball  *)
(* overlaps brick i only.                                                  *)
Contact ==
    /\ ball.inPlay
    /\ ~ball.frozen
    /\ \E i \in 1 .. Len(bricks), axis \in {"x", "y"} :
          /\ bricks[i].active
          /\ \E r \in {HandleBallBrickCollision(ball, bricks,
                          {<<bricks[i].row, bricks[i].col>>}, axis,
                          reactionEvents)} :
                 /\ bricks' = r.bricks
                 /\ ball' = r.ball
                 /\ reactionEvents' = r.events
                 /\ score' = score + r.bricksBroken
                 /\ obs' = [NoObs EXCEPT !.op = "contact", !.pre = PreState,
                               !.hit = [NoHit EXCEPT
                                           !.struck = r.struck,
                                           !.bricksBroken = r.bricksBroken,
                                           !.reaction = r.reaction,
                                           !.bricks = r.bricks,
                                           !.events = r.events]]
    /\ UNCHANGED <<paddle, lives, gameOver, gameWon, paused, showHowTo>>

(* The first contact of a scene.                                           *)
ContactStep == obs.op = "init" /\ Contact

(* main, lines 1038-1041: one pass of the event scheduler.                 *)
ResolveStep ==
    /\ reactionEvents # <<>>
    /\ \E dt \in DtValues :
          \E r \in {ResolveReactionEvents(dt, reactionEvents, bricks)} :
              /\ bricks' = r.bricks
              /\ reactionEvents' = r.events
              /\ score' = IF r.removed > 0 THEN score + r.removed ELSE score
              /\ obs' = [obs EXCEPT !.op = "resolve", !.pre = PreState,
                            !.dt = dt, !.elapsed = obs.elapsed + dt,
                            !.removed = r.removed]
    /\ UNCHANGED <<ball, paddle, lives, gameOver, gameWon, paused, showHowTo>>

(* One call of FreezeConnectedBricks as line 642 makes it: from the cell   *)
(* and with the element of an active elemental brick.                      *)
FreezeStep ==
    /\ obs.op = "init"
    /\ \E i \in 1 .. Len(bricks) :
          /\ bricks[i].active
          /\ bricks[i].colorIndex # NoColor
          /\ \E r \in {FreezeConnectedBricks(bricks, bricks[i].row,
                          bricks[i].col, bricks[i].colorIndex)} :
                 /\ bricks' = r.bricks
                 /\ obs' = [NoObs EXCEPT !.op = "freeze", !.pre = PreState,
                               !.hit = [NoHit EXCEPT !.struck = i],
                               !.removed = r.count]
    /\ UNCHANGED <<ball, paddle, reactionEvents, score, lives, gameOver,
                   gameWon, paused, showHowTo>>

(* One call of ApplyOverloadedAoE as line 486 makes it.                    *)
AoEStep ==
    /\ obs.op = "init"
    /\ \E c \in Arena :
          \E r \in {ApplyOverloadedAoE(bricks, c[1], c[2])} :
              /\ bricks' = r.bricks
              /\ obs' = [NoObs EXCEPT !.op = "aoe", !.pre = PreState,
                            !.center = c, !.removed = r.count]
    /\ UNCHANGED <<ball, paddle, reactionEvents, score, lives, gameOver,
                   gameWon, paused, showHowTo>>

UnitStates ==
    {Fresh(ColorIndexRed), Cracked(ColorIndexBlue), FrozenState, Destroyed}

InitUnit == \E bs \in SceneFields(UnitStates) : InitScene(bs, LaunchedBall)

NextUnit == FreezeStep \/ AoEStep

SpecUnit == InitUnit /\ [][NextUnit]_vars

BlueBall == BouncedBall(NoColor, ColorIndexBlue)
BlueFreezeBall == BouncedBall(ColorIndexLightBlue, ColorIndexBlue)
LightBlueFreezeBall == BouncedBall(ColorIndexBlue, ColorIndexLightBlue)
PurpleBall == BouncedBall(NoColor, ColorIndexPurple)
PurpleOverloadedBall == BouncedBall(ColorIndexRed, ColorIndexPurple)
RedBall == BouncedBall(NoColor, ColorIndexRed)
RedOverloadedBall == BouncedBall(ColorIndexPurple, ColorIndexRed)

(* Contacts of Blue and freezing balls with Red and Blue bricks.           *)
ColdStates == {Fresh(ColorIndexRed), Cracked(ColorIndexRed), Fresh(ColorIndexBlue)}

ColdBalls == {BlueBall, BlueFreezeBall, LightBlueFreezeBall}

InitCold ==
    \E bs \in SceneFields(ColdStates), b \in ColdBalls : InitScene(bs, b)

NextCold == ContactStep

SpecCold == InitCold /\ [][NextCold]_vars

(* Contacts of Purple and Blue balls with Blue and Purple bricks, and the  *)
(* scheduler passes that follow.                                           *)
SurgeStates == {Fresh(ColorIndexBlue), Fresh(ColorIndexPurple), Destroyed}

SurgeBalls == {PurpleBall, PurpleOverloadedBall, BlueBall, BlueFreezeBall}

InitSurge ==
    \E bs \in SceneFields(SurgeStates), b \in SurgeBalls : InitScene(bs, b)

NextSurge == ContactStep \/ ResolveStep

SpecSurge == InitSurge /\ [][NextSurge]_vars

(* Contacts of Red balls with frozen bricks.                               *)
MeltStates == {FrozenState, Fresh(ColorIndexRed), Destroyed}

MeltBalls == {RedBall, RedOverloadedBall}

InitMelt ==
    \E bs \in SceneFields(MeltStates), b \in MeltBalls : InitScene(bs, b)

NextMelt == ContactStep

SpecMelt == InitMelt /\ [][NextMelt]_vars

LightBlueSuperBall == BouncedBall(ColorIndexPurple, ColorIndexLightBlue)

(* A row of three cells and a column of two below its middle.              *)
ContactCells == {<<0, 0>>, <<0, 1>>, <<0, 2>>, <<1, 1>>, <<2, 1>>}

(* Contacts with Green bricks.                                             *)
InfuseStates ==
    {Fresh(ColorIndexGreen), Cracked(ColorIndexGreen), Fresh(ColorIndexRed),
     Destroyed}

InfuseBalls ==
    {LaunchedBall, RedBall, BlueBall, LightBlueSuperBall, PurpleOverloadedBall}

InitInfuse ==
    \E bs \in FieldsOn(ContactCells, InfuseStates), b \in InfuseBalls :
        InitScene(bs, b)

NextInfuse == ContactStep

SpecInfuse == InitInfuse /\ [][NextInfuse]_vars

LightBlueBall == BouncedBall(NoColor, ColorIndexLightBlue)

(* Contacts of LightBlue balls with Red bricks.                            *)
LiquefyStates ==
    {Fresh(ColorIndexRed), Cracked(ColorIndexRed), Fresh(ColorIndexBlue),
     Destroyed}

LiquefyBalls ==
    {LightBlueBall, LightBlueSuperBall, LightBlueFreezeBall, BlueBall}

InitLiquefy ==
    \E bs \in FieldsOn(ContactCells, LiquefyStates), b \in LiquefyBalls :
        InitScene(bs, b)

NextLiquefy == ContactStep

SpecLiquefy == InitLiquefy /\ [][NextLiquefy]_vars

(* Contacts of Green balls, and the scheduler passes between them.         *)
SwirlStates ==
    {Fresh(ColorIndexRed), Cracked(ColorIndexPurple), Fresh(ColorIndexGreen),
     Fresh(NoColor), Destroyed}

(* A row of three cells and one below its middle.                          *)
TeeCells == {<<0, 0>>, <<0, 1>>, <<0, 2>>, <<1, 1>>}

SwirlBalls ==
    {BouncedBall(c, ColorIndexGreen) :
        c \in {NoColor, ColorIndexRed, ColorIndexGreen}} \cup {RedBall}

InitSwirl ==
    \E bs \in FieldsOn(TeeCells, SwirlStates), b \in SwirlBalls :
        InitScene(bs, b)

NextSwirl == Contact \/ ResolveStep

SpecSwirl == InitSwirl /\ [][NextSwirl]_vars

(* Contacts with frozen bricks, and contacts that freeze.                  *)
ShatterStates ==
    {FrozenState, Fresh(ColorIndexRed), Fresh(ColorIndexBlue), Destroyed}

ShatterBalls ==
    {LaunchedBall, BlueBall, LightBlueFreezeBall, PurpleOverloadedBall,
     RedBall}

InitShatter ==
    \E bs \in FieldsOn(ContactCells, ShatterStates), b \in ShatterBalls :
        InitScene(bs, b)

NextShatter == ContactStep

SpecShatter == InitShatter /\ [][NextShatter]_vars

GreenBall == BouncedBall(NoColor, ColorIndexGreen)

(* Successive contacts with the fresh bricks of a wave.                    *)
DefaultStates ==
    {Fresh(ColorIndexRed), Fresh(ColorIndexGreen), Fresh(NoColor), Destroyed}

DefaultBalls ==
    {LaunchedBall, RedBall, GreenBall, LightBlueFreezeBall,
     PurpleOverloadedBall}

InitDefault ==
    \E bs \in FieldsOn(TeeCells, DefaultStates), b \in DefaultBalls :
        InitScene(bs, b)

NextDefault == Contact

SpecDefault == InitDefault /\ [][NextDefault]_vars

PurpleSuperBall == BouncedBall(ColorIndexLightBlue, ColorIndexPurple)

(* Successive contacts of superconducting balls and of others with bricks  *)
(* of every kind.                                                          *)
SuperStates ==
    {Fresh(ColorIndexRed), Fresh(ColorIndexBlue), Fresh(ColorIndexGreen),
     FrozenState, Destroyed}

SuperBalls == {LightBlueSuperBall, PurpleSuperBall, PurpleBall, GreenBall}

InitSuper ==
    \E bs \in FieldsOn(TeeCells, SuperStates), b \in SuperBalls :
        InitScene(bs, b)

NextSuper == Contact

SpecSuper == InitSuper /\ [][NextSuper]_vars

(* Contacts of a ball whose circle meets the rectangles of several cells   *)
(* of a 2 x 2 block at once.                                               *)
OverlapCells == {<<0, 0>>, <<0, 1>>, <<1, 0>>, <<1, 1>>}

OverlapStates ==
    {Fresh(ColorIndexRed), Fresh(ColorIndexGreen), Cracked(ColorIndexBlue),
     Destroyed}

OverlapBalls ==
    {LaunchedBall, BlueFreezeBall, PurpleOverloadedBall, PurpleSuperBall}

InitOverlap ==
    \E bs \in FieldsOn(OverlapCells, OverlapStates), b \in OverlapBalls :
        InitScene(bs, b)

(* main, line 1010: the brick contact of a frame in which the ball         *)
(* overlaps the cells of the set over.                                     *)
OverlapContact ==
    /\ obs.op = "init"
    /\ ball.inPlay
    /\ ~ball.frozen
    /\ \E over \in SUBSET OverlapCells, axis \in {"x", "y"} :
          /\ over # {}
          /\ \E r \in {HandleBallBrickCollision(ball, bricks, over, axis,
                                                reactionEvents)} :
                 /\ bricks' = r.bricks
                 /\ ball' = r.ball
                 /\ reactionEvents' = r.events
                 /\ score' = score + r.bricksBroken
                 /\ obs' = [NoObs EXCEPT !.op = "contact", !.pre = PreState,
                               !.hit = [NoHit EXCEPT
                                           !.struck = r.struck,
                                           !.bricksBroken = r.bricksBroken,
                                           !.reaction = r.reaction,
                                           !.bricks = r.bricks,
                                           !.events = r.events,
                                           !.overlap = over,
                                           !.axis = axis]]
    /\ UNCHANGED <<paddle, lives, gameOver, gameWon, paused, showHowTo>>

NextOverlap == OverlapContact

SpecOverlap == InitOverlap /\ [][NextOverlap]_vars

(* Brick contacts in two steps, so that the field is seen as the freeze of *)
(* lines 638-648 leaves it: first the freeze and the bounce, then the      *)
(* reactions, the damage and the shatter chain. The fields hold no frozen  *)
(* brick to begin with.                                                    *)
ThawedStates ==
    {Fresh(ColorIndexBlue), Cracked(ColorIndexBlue), Fresh(ColorIndexGreen),
     Fresh(NoColor)}

FrostBalls == {BlueFreezeBall, LightBlueFreezeBall, RedBall, LaunchedBall}

InitFrost ==
    \E bs \in FieldsOn(TeeCells, ThawedStates), b \in FrostBalls :
        InitScene(bs, b)

(* Lines 638-706 for the struck brick bricks[i].                           *)
FreezePart ==
    /\ obs.op # "frozen"
    /\ ball.inPlay
    /\ ~ball.frozen
    /\ \E i \in 1 .. Len(bricks), axis \in {"x", "y"} :
          /\ bricks[i].active
          /\ \E froze \in {ball.freezeReady /\ bricks[i].colorIndex # NoColor} :
                 /\ bricks' = IF froze
                              THEN FreezeConnectedBricks(
                                       bricks, bricks[i].row, bricks[i].col,
                                       bricks[i].colorIndex).bricks
                              ELSE bricks
                 /\ ball' = BounceOffBrick([ball EXCEPT !.freezeReady = FALSE],
                                           axis)
                 /\ obs' = [NoObs EXCEPT
                               !.op = "frozen", !.pre = PreState,
                               !.hit = [NoHit EXCEPT
                                           !.struck = i,
                                           !.reaction = [NoReaction EXCEPT
                                                            !.freeze = froze]]]
    /\ UNCHANGED <<paddle, reactionEvents, score, lives, gameOver, gameWon,
                   paused, showHowTo>>

(* Lines 712-823 for the same brick.                                       *)
ReactPart ==
    /\ obs.op = "frozen"
    /\ \E r \in {ReactToBrick(ball, bricks, obs.hit.struck, reactionEvents,
                               obs.hit.reaction.freeze)} :
          /\ bricks' = r.bricks
          /\ ball' = r.ball
          /\ reactionEvents' = r.events
          /\ score' = score + r.bricksBroken
          /\ obs' = [obs EXCEPT !.op = "contact",
                                !.hit = [NoHit EXCEPT
                                            !.struck = r.struck,
                                            !.bricksBroken = r.bricksBroken,
                                            !.reaction = r.reaction,
                                            !.bricks = r.bricks,
                                            !.events = r.events]]
    /\ UNCHANGED <<paddle, lives, gameOver, gameWon, paused, showHowTo>>

NextFrost == FreezePart \/ ReactPart

SpecFrost == InitFrost /\ [][NextFrost]_vars

----------------------------------------------------------------------------
(* The main loop.                                                          *)

(* CreateBricks for the draws that leave bricks on the cells S only:      *)
(* chunkColor[row] is the element drawn for the first chunk of the row,    *)
(* which spans columns 0 .. ChunkMin - 1 whatever its size.                *)
(* A wave holds at least one brick: the draw that leaves a gap in each of  *)
(* the BrickRows * BrickCols cells is left out.                            *)
CreateBricks(S, chunkColor) ==
    LET cs == CellSeq(S)
    IN  [k \in 1 .. Len(cs) |->
            NewBrick(cs[k][1], cs[k][2], chunkColor[cs[k][1]])]

WaveFields(cells, colors) ==
    {CreateBricks(S, cc) : S \in CellSets(cells) \ {{}},
                           cc \in [{c[1] : c \in cells} -> colors]}

(* CreateBricks as its loops run (lines 367-413), for the draws d.         *)
ChunkSizeUnclipped(drawn, remaining) == drawn

(* Lines 371-374.                                                          *)
ChunkSize(drawn, remaining) == IF drawn > remaining THEN remaining ELSE drawn

(* Lines 376-384.                                                          *)
ChunkColorIdx(d, row, k) ==
    IF d.neutralAt = k THEN NoColor
    ELSE (d.base + row + k) % BrickPaletteCount

(* The for loop of lines 386-410: the bricks one chunk pushes, in order of *)
(* column, one for each cell of the chunk whose gap draw is "no gap".      *)
CreateChunk(d, row, col, chunkSize, colorIdx) ==
    LET cs == CellSeq({<<row, col + i>> : i \in 0 .. (chunkSize - 1)}
                          \cap d.cells)
    IN  [j \in 1 .. Len(cs) |-> NewBrick(cs[j][1], cs[j][2], colorIdx)]

(* The while loop of lines 369-412 from column col and chunk k on: the     *)
(* bricks pushed for the rest of the row.                                  *)
RECURSIVE CreateRow(_, _, _, _)
CreateRow(d, row, col, k) ==
    IF col >= BrickCols THEN <<>>
    ELSE LET chunkSize == ChunkSize(d.size[k], BrickCols - col)
         IN  CreateChunk(d, row, col, chunkSize, ChunkColorIdx(d, row, k))
                 \o CreateRow(d, row, col + chunkSize, k + 1)

(* The for loop of line 367 from row on.                                   *)
RECURSIVE CreateRows(_, _)
CreateRows(d, row) ==
    IF row >= BrickRows THEN <<>>
    ELSE CreateRow(d, row, 0, 1) \o CreateRows(d, row + 1)

CreateBricksDrawn(d) == CreateRows(d, 0)

(* The draws CreateBricks is run with: every size for each of the four     *)
(* chunks a row can need, and gap draws that leave at most MaxBricks       *)
(* bricks, in the first and the last row. Column BrickCols is where an     *)
(* unclipped last chunk would reach.                                       *)
DrawCells == {0, BrickRows - 1} \X {0, 2, 5, BrickCols - 1, BrickCols}

Draws ==
    [size : [1 .. (BrickCols \div ChunkMin) -> ChunkMin .. ChunkMax],
     base : {ColorIndexRed, ColorIndexPurple},
     neutralAt : {0, 2},
     cells : CellSets(DrawCells)]

InitCreate ==
    \E d \in Draws :
        /\ bricks = <<>>
        /\ ball = NewBall
        /\ paddle = [colorIndex |-> ColorIndexPurple]
        /\ reactionEvents = <<>>
        /\ score = 0
        /\ lives = InitialLives
        /\ gameOver = FALSE
        /\ gameWon = FALSE
        /\ paused = FALSE
        /\ showHowTo = TRUE
        /\ obs = [NoObs EXCEPT !.op = "draw", !.draws = d]

(* main, line 863: std::vector<Brick> bricks = CreateBricks().             *)
CreateStep ==
    /\ obs.op = "draw"
    /\ bricks' = CreateBricksDrawn(obs.draws)
    /\ obs' = [obs EXCEPT !.op = "create"]
    /\ UNCHANGED <<ball, paddle, reactionEvents, score, lives, gameOver,
                   gameWon, paused, showHowTo>>

NextCreate == CreateStep

SpecCreate == InitCreate /\ [][NextCreate]_vars

GameState ==
    [bricks |-> bricks, ball |-> ball, paddle |-> paddle,
     events |-> reactionEvents, score |-> score, lives |-> lives,
     gameOver |-> gameOver, gameWon |-> gameWon, paused |-> paused]

ColorKeyOf(key) ==
    IF key = "ONE" THEN 1 ELSE IF key = "TWO" THEN 2
    ELSE IF key = "THREE" THEN 3 ELSE IF key = "FOUR" THEN 4
    ELSE IF key = "FIVE" THEN 5 ELSE 0

(* ball.speed *= 1.15f                                                     *)
SpeedUp(speed) == <<speed[1] * 23, speed[2] * 20>>

RegenerateWaveKeepsSpeed(s, field) ==
    [s EXCEPT !.bricks = field, !.ball = ResetBallOnPaddle(s.ball),
              !.events = <<>>]

RegenerateWave(s, field) ==
    [s EXCEPT !.bricks = field,
              !.ball = ResetBallOnPaddle(
                           [s.ball EXCEPT !.speed = SpeedUp(s.ball.speed)]),
              !.events = <<>>]

WaveClearedEarly(s, field) ==
    IF CountActiveBricks(s.bricks) <= 1 THEN RegenerateWave(s, field) ELSE s

WaveCleared(s, field) ==
    IF CountActiveBricks(s.bricks) = 0 THEN RegenerateWave(s, field) ELSE s

TogglePause(s, key) ==
    IF ~s.gameOver /\ ~s.gameWon /\ key = "P"
    THEN [s EXCEPT !.paused = ~s.paused]
    ELSE s

CanAct(s) == ~s.paused /\ ~s.gameOver /\ ~s.gameWon

PaddleInput(s, key) ==
    IF CanAct(s)
    THEN [s EXCEPT !.paddle = HandlePaddleColorInput(s.paddle, ColorKeyOf(key))]
    ELSE s

FreezeCountdown(s, dt) ==
    IF ~s.paused THEN [s EXCEPT !.ball = UpdateFrozenBall(s.ball, dt)] ELSE s

PinBall(s) ==
    IF ~s.ball.inPlay THEN [s EXCEPT !.ball.pos = "paddle"] ELSE s

Launch(s, canAct, key, direction) ==
    IF canAct /\ key = "SPACE"
    THEN [s EXCEPT !.ball = LaunchBall(s.ball, direction)]
    ELSE s

ForfeitWhilePaused(s, canAct, key) ==
    IF ~s.gameOver /\ ~s.gameWon /\ key = "Q"
    THEN [s EXCEPT !.lives = 0, !.gameOver = TRUE, !.ball.inPlay = FALSE]
    ELSE s

Forfeit(s, canAct, key) ==
    IF canAct /\ key = "Q"
    THEN [s EXCEPT !.lives = 0, !.gameOver = TRUE, !.ball.inPlay = FALSE]
    ELSE s

Moves(s, canAct) == canAct /\ s.ball.inPlay /\ ~s.ball.frozen

(* The ball moves, then meets walls, paddle and bricks; g holds the        *)
(* outcomes of the geometric tests of the frame.                           *)
MoveAndCollide(s, g) ==
    LET p == HandleBallPaddleCollision(
                 HandleBallWallCollisions([s.ball EXCEPT !.pos = "field"],
                                          g.wallX, g.wallTop),
                 s.paddle, g.hit, g.relative)
        r == HandleBallBrickCollision(p.ball, s.bricks, g.overlap, g.axis,
                                      s.events)
    IN  [state |-> [s EXCEPT !.ball = r.ball, !.bricks = r.bricks,
                             !.events = r.events,
                             !.score = s.score + r.bricksBroken],
         hit |-> [NoHit EXCEPT !.struck = r.struck,
                               !.bricksBroken = r.bricksBroken,
                               !.reaction = r.reaction,
                               !.freezeReady =
                                   r.struck # 0 /\ p.ball.freezeReady,
                               !.bounce =
                                   IF p.hitPaddle
                                   THEN [hitPaddle |-> TRUE,
                                         before |->
                                             [colorIndex |->
                                                  s.ball.colorIndex,
                                              superconduct |->
                                                  s.ball.superconduct],
                                         relative |-> g.relative,
                                         ball |-> p.ball]
                                   ELSE NoBounce]]

(* fall: ball.position.y - ball.radius > ScreenHeight, which a ball put    *)
(* back on the paddle in this frame does not satisfy.                      *)
FallOff(s, fall) ==
    IF fall /\ s.ball.pos = "field"
    THEN [s EXCEPT !.lives = s.lives - 1,
                   !.gameOver = s.gameOver \/ s.lives - 1 <= 0,
                   !.ball = ResetBallOnPaddle(s.ball)]
    ELSE s

ResolveEvents(s, dt) ==
    LET r == ResolveReactionEvents(dt, s.events, s.bricks)
    IN  [s EXCEPT !.events = r.events, !.bricks = r.bricks,
                  !.score = IF r.removed > 0 THEN s.score + r.removed
                            ELSE s.score]

Restart(s, field) ==
    [s EXCEPT !.bricks = field, !.score = 0, !.lives = InitialLives,
              !.gameOver = FALSE, !.gameWon = FALSE, !.paused = FALSE,
              !.ball = ResetBallOnPaddle([s.ball EXCEPT !.speed = InitialSpeed])]


(* The fields, keys, frame times and bounce offsets the main loop is      *)
(* run with.                                                               *)
MainCells == {<<0, 0>>, <<0, 1>>}

MainColors == {ColorIndexRed, ColorIndexBlue}

MainFields == WaveFields(MainCells, MainColors)

FrameKeys == {"NONE", "P", "SPACE", "Q", "ENTER", "ONE"}

FrameDts == {6, 100}

Relatives == {0, 1}

SpeedCap == 20 ^ MaxWaves

NoGeometry ==
    [wallX |-> FALSE, wallTop |-> FALSE, hit |-> FALSE, relative |-> 0,
     overlap |-> {}, axis |-> "y", fall |-> FALSE]

(* The outcomes the geometric tests of one frame can have for a ball with  *)
(* velocity v: nothing is met, or one thing is: a side wall or the top     *)
(* wall moving towards it, the paddle or the lower screen edge moving      *)
(* down, or one active brick.                                              *)
MotionInputs(s) ==
    LET v == s.ball.velocity
        cells == {<<s.bricks[i].row, s.bricks[i].col>> :
                     i \in {j \in 1 .. Len(s.bricks) : s.bricks[j].active}}
    IN  {NoGeometry}
        \cup (IF v[1] # 0 THEN {[NoGeometry EXCEPT !.wallX = TRUE]} ELSE {})
        \cup (IF v[2] < 0 THEN {[NoGeometry EXCEPT !.wallTop = TRUE]} ELSE {})
        \cup (IF v[2] > 0
              THEN {[NoGeometry EXCEPT !.fall = TRUE]}
                   \cup {[NoGeometry EXCEPT !.hit = TRUE, !.relative = r] :
                             r \in Relatives}
              ELSE {})
        \cup {[NoGeometry EXCEPT !.overlap = {c}, !.axis = a] :
                  c \in cells, a \in {"x", "y"}}

FieldDraws(needed, fields) == IF needed THEN fields ELSE {<<>>}

(* What a frame that begins with the ball frozen on the paddle does to it *)
(* at lines 950-967: the ball before and after, and the time counted,      *)
(* which is 0 in a paused frame. s1 is the state after line 972.           *)
FreezeObs(b, s1, dt) ==
    IF b.inPlay /\ b.frozen
    THEN [was |-> TRUE, before |-> b, after |-> s1.ball,
          dt |-> IF s1.paused THEN 0 ELSE dt]
    ELSE NoFreeze

(* The time counted over the frames since the ball froze.                  *)
FrozenFor(elapsed, b, s1, dt) ==
    IF b.inPlay /\ b.frozen
    THEN elapsed + (IF s1.paused THEN 0 ELSE dt)
    ELSE 0

(* What took the last active brick of the field in a frame: the brick      *)
(* contact of line 1010, or the events resolved at line 1038. m is the     *)
(* outcome of the motion branch, s3 and s4 the state before and after      *)
(* ResolveReactionEvents.                                                  *)
ClearedBy(moves, m, s3, s4) ==
    IF moves /\ m.hit.bricksBroken > 0
             /\ CountActiveBricks(m.state.bricks) = 0
    THEN "contact"
    ELSE IF CanAct(s3) /\ s4.score > s3.score
                       /\ CountActiveBricks(s4.bricks) = 0
    THEN "event"
    ELSE "none"

(* One pass of the loop while the help screen is shown (lines 880-939).    *)
HelpStep ==
    /\ showHowTo
    /\ \E key \in FrameKeys :
          IF key \in {"ENTER", "SPACE"}
          THEN /\ showHowTo' = FALSE
               /\ ball' = ResetBallOnPaddle(ball)
          ELSE UNCHANGED <<showHowTo, ball>>
    /\ UNCHANGED <<bricks, paddle, reactionEvents, score, lives, gameOver,
                   gameWon, paused, obs>>

(* One pass of the loop in the game proper (lines 941-1065), for a key,   *)
(* a frame time and fields drawn from the given sets.                      *)
FrameWith(keys, dts, fields) ==
    /\ ~showHowTo
    /\ \E key \in keys, dt \in dts :
       \E direction \in IF key = "SPACE" THEN {0 - 1, 1} ELSE {1} :
       \E s1 \in {PinBall(FreezeCountdown(
                      PaddleInput(TogglePause(GameState, key), key), dt))} :
       \E s2 \in {Forfeit(Launch(s1, CanAct(s1), key, direction),
                          CanAct(s1), key)} :
       \E moves \in {Moves(s2, CanAct(s1))} :
       \E g \in IF moves THEN MotionInputs(s2) ELSE {NoGeometry} :
       \E m \in {IF moves THEN MoveAndCollide(s2, g)
                 ELSE [state |-> s2, hit |-> NoHit]} :
       \E f1 \in FieldDraws(moves /\ CountActiveBricks(m.state.bricks) = 0,
                            fields) :
       \E w \in {IF moves THEN WaveCleared(m.state, f1) ELSE m.state} :
       \E s3 \in {IF moves THEN FallOff(w, g.fall) ELSE w} :
       \E s4 \in {IF CanAct(s3) THEN ResolveEvents(s3, dt) ELSE s3} :
       \E f2 \in FieldDraws(CanAct(s3) /\ CountActiveBricks(s4.bricks) = 0,
                            fields) :
       \E s5 \in {IF CanAct(s3) THEN WaveCleared(s4, f2) ELSE s4} :
       \E restart \in {(s5.gameOver \/ s5.gameWon) /\ key = "ENTER"} :
       \E f3 \in FieldDraws(restart, fields) :
       \E s6 \in {IF restart THEN Restart(s5, f3) ELSE s5} :
          /\ s6.score <= MaxScore
          /\ s6.ball.speed[2] <= SpeedCap
          /\ bricks' = s6.bricks
          /\ ball' = s6.ball
          /\ paddle' = s6.paddle
          /\ reactionEvents' = s6.events
          /\ score' = s6.score
          /\ lives' = s6.lives
          /\ gameOver' = s6.gameOver
          /\ gameWon' = s6.gameWon
          /\ paused' = s6.paused
          /\ obs' = IF s3.lives # w.lives
                    THEN [NoObs EXCEPT !.op = "frame", !.fell = TRUE,
                                       !.pre = PreState,
                                       !.restarted = restart,
                                       !.mid = [lives |-> s3.lives,
                                                gameOver |-> s3.gameOver,
                                                ball |-> s3.ball]]
                    ELSE LET cleared == ClearedBy(moves, m, s3, s4)
                         IN  [NoObs EXCEPT !.op = "frame", !.hit = m.hit,
                                           !.restarted = restart,
                                           !.cleared = cleared,
                                           !.pre = IF cleared = "none"
                                                   THEN NoObs.pre
                                                   ELSE PreState,
                                           !.freeze = FreezeObs(ball, s1, dt),
                                           !.elapsed =
                                               FrozenFor(obs.elapsed, ball,
                                                         s1, dt)]
    /\ UNCHANGED showHowTo

Frame == FrameWith(FrameKeys, FrameDts, MainFields)

(* The state after construction (lines 855-874).                           *)
Init ==
    \E field \in MainFields :
        /\ bricks = field
        /\ ball = ResetBallOnPaddle(NewBall)
        /\ paddle = [colorIndex |-> ColorIndexPurple]
        /\ reactionEvents = <<>>
        /\ score = 0
        /\ lives = InitialLives
        /\ gameOver = FALSE
        /\ gameWon = FALSE
        /\ paused = FALSE
        /\ showHowTo = TRUE
        /\ obs = NoObs

Next == HelpStep \/ Frame

Spec == Init /\ [][Next]_vars

(* Frames of a run in mid-wave with no key pressed, over fields and balls  *)
(* that bring every reaction about.                                        *)
ReactionCells == {<<0, 0>>, <<0, 1>>, <<1, 1>>}

ReactionStates ==
    {Fresh(ColorIndexBlue), Fresh(ColorIndexGreen), Cracked(ColorIndexRed),
     Destroyed}

ReactionBalls ==
    {LaunchedBall, BouncedBall(NoColor, ColorIndexGreen), BlueFreezeBall,
     PurpleOverloadedBall}

ReactionFields ==
    WaveFields(ReactionCells, {ColorIndexBlue, ColorIndexGreen})

InitReactions ==
    \E bs \in FieldsOn(ReactionCells, ReactionStates), b \in ReactionBalls :
        CountActiveBricks(bs) > 0 /\ InitScene(bs, b)

ReactionFrame == FrameWith({"NONE"}, FrameDts, ReactionFields)

NextReactions == ReactionFrame

SpecReactions == InitReactions /\ [][NextReactions]_vars

(* Frames of that kind with the keys that end a run and start the next     *)
(* one, over fields of two cells.                                          *)
RunKeys == {"NONE", "Q", "ENTER"}

RunCells == {<<0, 0>>, <<0, 1>>}

RunFields == WaveFields(RunCells, {ColorIndexBlue, ColorIndexGreen})

InitRuns ==
    \E bs \in FieldsOn(RunCells, ReactionStates), b \in ReactionBalls :
        CountActiveBricks(bs) > 0 /\ InitScene(bs, b)

RunFrame == FrameWith(RunKeys, FrameDts, RunFields)

NextRuns == RunFrame

SpecRuns == InitRuns /\ [][NextRuns]_vars

(* Frames of a run in mid-wave, or with the ball waiting on the paddle,    *)
(* in which the player pauses and presses the keys that launch, forfeit,   *)
(* restart and change the paddle's element.                                *)
PauseKeys == {"NONE", "P", "SPACE", "Q", "ENTER", "TWO"}

PauseBalls == ReactionBalls \cup {ResetBallOnPaddle(NewBall)}

PauseFields == WaveFields({<<0, 0>>}, {ColorIndexBlue})

InitPause ==
    \E bs \in FieldsOn(RunCells, ReactionStates), b \in PauseBalls :
        CountActiveBricks(bs) > 0 /\ InitScene(bs, b)

PauseFrame == FrameWith(PauseKeys, FrameDts, PauseFields)

NextPause == PauseFrame

SpecPause == InitPause /\ [][NextPause]_vars

(* Frames of a run in which the player changes the paddle's element, so    *)
(* that the bounces arm each of the ball's flags.                          *)
PaddleKeys == {"NONE", "P", "SPACE", "ENTER", "ONE", "TWO", "FOUR", "FIVE"}

PaddleDts == {50, 100}

PaddleFields == WaveFields({<<0, 0>>}, {ColorIndexRed})

InitPaddle == \E bs \in PaddleFields : InitScene(bs, LaunchedBall)

PaddleFrame == FrameWith(PaddleKeys, PaddleDts, PaddleFields)

NextPaddle == PaddleFrame

SpecPaddle == InitPaddle /\ [][NextPaddle]_vars

(* Frames of a run over Blue and neutral bricks in which the player sets   *)
(* the paddle to Blue and LightBlue, so that freezing balls meet both.     *)
OneShotKeys == {"NONE", "SPACE", "TWO", "FIVE"}

OneShotFields ==
    WaveFields({<<0, 0>>}, {ColorIndexBlue, NoColor})

InitOneShot == \E bs \in OneShotFields : InitScene(bs, LaunchedBall)

OneShotFrame == FrameWith(OneShotKeys, PaddleDts, OneShotFields)

NextOneShot == OneShotFrame

SpecOneShot == InitOneShot /\ [][NextOneShot]_vars

(* Scheduler passes over pending events, some of them aimed at bricks     *)
(* that are already destroyed.                                             *)
ResolveArena == {<<0, 0>>, <<0, 1>>, <<0, 2>>, <<1, 1>>}

ResolveStates == {Fresh(ColorIndexBlue), Destroyed}

EventTimers == {SurgeTimer(1), OverloadAoEDelay}

(* The events that can be pending on the field bs: aimed at a cell that    *)
(* holds a brick, active or not.                                           *)
PendingEvents(bs) ==
    {ReactionEvent(bs[i].row, bs[i].col, t, k) :
        i \in 1 .. Len(bs), t \in EventTimers, k \in {OverloadAoE, SurgeChain}}

EventLists(bs) ==
    UNION {[1 .. n -> PendingEvents(bs)] : n \in 0 .. MaxEvents}

InitResolve ==
    \E bs \in FieldsOn(ResolveArena, ResolveStates) :
        \E es \in EventLists(bs) :
            /\ bricks = bs
            /\ ball = LaunchedBall
            /\ paddle = [colorIndex |-> ColorIndexPurple]
            /\ reactionEvents = es
            /\ score = 0
            /\ lives = InitialLives
            /\ gameOver = FALSE
            /\ gameWon = FALSE
            /\ paused = FALSE
            /\ showHowTo = FALSE
                    /\ obs = NoObs

NextResolve == ResolveStep

SpecResolve == InitResolve /\ [][NextResolve]_vars

(* Scheduler passes over lists of up to MaxEvents + 1 pending events on a  *)
(* field of two cells, so that a due event can stand between two events    *)
(* that stay queued.                                                       *)
TickCells == {<<0, 0>>, <<0, 1>>}

TickLists(bs) ==
    UNION {[1 .. n -> PendingEvents(bs)] : n \in 0 .. (MaxEvents + 1)}

InitTick ==
    \E bs \in FieldsOn(TickCells, ResolveStates) :
        \E es \in TickLists(bs) :
            /\ bricks = bs
            /\ ball = LaunchedBall
            /\ paddle = [colorIndex |-> ColorIndexPurple]
            /\ reactionEvents = es
            /\ score = 0
            /\ lives = InitialLives
            /\ gameOver = FALSE
            /\ gameWon = FALSE
            /\ paused = FALSE
            /\ showHowTo = FALSE
            /\ obs = NoObs

NextTick == ResolveStep

SpecTick == InitTick /\ [][NextTick]_vars

----------------------------------------------------------------------------
(* What the claims speak of.                                               *)

Indices(bs) == 1 .. Len(bs)

Adjacent(a, b) == Abs(a.row - b.row) + Abs(a.col - b.col) = 1

(* The indices of M joined to those of S by a chain of 4-neighbours in M.  *)
RECURSIVE Closure(_, _, _)
Closure(bs, M, S) ==
    LET N == S \cup {j \in M : \E k \in S : Adjacent(bs[j], bs[k])}
    IN  IF N = S THEN S ELSE Closure(bs, M, N)

SameElement(bs, i) ==
    {j \in Indices(bs) : bs[j].active /\ bs[j].colorIndex = bs[i].colorIndex}

AsFrozen(b) ==
    [b EXCEPT !.frozen = TRUE, !.colorIndex = NoColor, !.hitPoints = 1,
              !.cracked = FALSE]

AsDestroyed(b) ==
    [b EXCEPT !.active = FALSE, !.hitPoints = 0, !.frozen = FALSE,
              !.cracked = FALSE, !.colorIndex = NoColor]

(* C9: the freeze flood-fill started at a struck brick of element E        *)
(* freezes exactly the bricks of the 4-connected component of the struck   *)
(* cell among the active bricks of element E, and changes nothing else.    *)
C9_FreezeExactlyComponent ==
    obs.op = "freeze" =>
        LET pre == obs.pre.bricks
            comp == Closure(pre, SameElement(pre, obs.hit.struck),
                            {obs.hit.struck})
        IN  /\ Len(bricks) = Len(pre)
            /\ \A j \in Indices(pre) :
                  bricks[j] = IF j \in comp THEN AsFrozen(pre[j]) ELSE pre[j]
            /\ obs.removed = Cardinality(comp)

(* A fill that froze two bricks and stopped at an adjacent active brick    *)
(* of another element.                                                     *)
C9_Witness ==
    /\ obs.op = "freeze"
    /\ obs.removed >= 2
    /\ \E j, k \in Indices(bricks) :
          /\ bricks[j].frozen /\ ~obs.pre.bricks[j].frozen
          /\ Adjacent(bricks[j], bricks[k])
          /\ bricks[k].active /\ ~bricks[k].frozen
          /\ bricks[k] = obs.pre.bricks[k]

(* C6: an AreaExplosion centred on (r,c) destroys exactly the active       *)
(* bricks with |row-r| <= 1 and |col-c| <= 1, whatever their element or    *)
(* frozen state, leaves every other brick unchanged, and returns the       *)
(* number of bricks it destroyed.                                          *)
C6_AoEExactlyBlock ==
    obs.op = "aoe" =>
        LET pre == obs.pre.bricks
            block == {j \in Indices(pre) :
                         /\ pre[j].active
                         /\ pre[j].row - obs.center[1] \in {0 - 1, 0, 1}
                         /\ pre[j].col - obs.center[2] \in {0 - 1, 0, 1}}
        IN  /\ Len(bricks) = Len(pre)
            /\ \A j \in Indices(pre) :
                  bricks[j] = IF j \in block THEN AsDestroyed(pre[j]) ELSE pre[j]
            /\ obs.removed = Cardinality(block)

(* An explosion that destroyed a frozen brick and a diagonal neighbour of  *)
(* its centre and left an active brick outside the block standing.         *)
C6_Witness ==
    /\ obs.op = "aoe"
    /\ \E j, k, m \in Indices(bricks) :
          /\ obs.pre.bricks[j].frozen /\ ~bricks[j].active
          /\ obs.pre.bricks[k].active /\ ~bricks[k].active
          /\ Abs(bricks[k].row - obs.center[1]) = 1
          /\ Abs(bricks[k].col - obs.center[2]) = 1
          /\ bricks[m].active

(* Three active bricks of one element side by side in one row.             *)
RowOfThree(bs) ==
    /\ Len(bs) = 3
    /\ \A j \in 1 .. 3 :
          /\ bs[j].active
          /\ bs[j].colorIndex # NoColor
          /\ bs[j].colorIndex = bs[1].colorIndex
          /\ bs[j].row = bs[1].row
          /\ bs[j].col = bs[1].col + (j - 1)

(* C2: when a ball carrying freezeReady strikes the middle brick of a row  *)
(* of three active bricks of one element, then after the contact all       *)
(* three bricks are frozen, have element None and have hitPoints 1.        *)
C2_FreezeRowOfThree ==
    (/\ obs.op = "contact"
     /\ obs.pre.ball.freezeReady
     /\ RowOfThree(obs.pre.bricks)
     /\ obs.hit.struck = 2)
        => \A j \in 1 .. 3 :
              /\ bricks[j].active
              /\ bricks[j].frozen
              /\ bricks[j].colorIndex = NoColor
              /\ bricks[j].hitPoints = 1

(* The contact of C2 as the code leaves it: the row was frozen and then    *)
(* shattered, all three bricks are destroyed and counted.                  *)
C2_Witness ==
    /\ obs.op = "contact"
    /\ obs.pre.ball.freezeReady
    /\ RowOfThree(obs.pre.bricks)
    /\ obs.hit.struck = 2
    /\ obs.hit.reaction.freeze
    /\ obs.hit.reaction.shatter
    /\ \A j \in 1 .. 3 : bricks[j] = AsDestroyed(obs.pre.bricks[j])
    /\ obs.hit.bricksBroken = 3
    /\ ~ball.freezeReady

BlueOnRed ==
    /\ obs.op = "contact"
    /\ obs.pre.ball.colorIndex = ColorIndexBlue
    /\ obs.pre.bricks[obs.hit.struck].colorIndex = ColorIndexRed

(* C4 as stated: whenever a Blue ball strikes a Red brick, the struck      *)
(* brick is destroyed in that contact and the contact returns              *)
(* bricksBroken = 1.                                                       *)
C4_VaporizeCountsOne ==
    BlueOnRed =>
        /\ ~bricks[obs.hit.struck].active
        /\ obs.hit.bricksBroken = 1

(* C4, amended: whenever a Blue ball that does not carry freezeReady       *)
(* strikes a Red brick, the contact is a Vaporize, the struck brick is     *)
(* destroyed, every other brick is unchanged, no event is scheduled and    *)
(* the contact returns bricksBroken = 1.                                   *)
C4_VaporizeWithoutFreeze ==
    (BlueOnRed /\ ~obs.pre.ball.freezeReady) =>
        LET pre == obs.pre.bricks
            i == obs.hit.struck
        IN  /\ obs.hit.reaction.vaporize
            /\ \A j \in Indices(pre) :
                  bricks[j] = IF j = i THEN AsDestroyed(pre[j]) ELSE pre[j]
            /\ obs.hit.bricksBroken = 1
            /\ score = obs.pre.score + 1
            /\ reactionEvents = obs.pre.events

(* A Vaporize of a fresh Red brick (hitPoints 2) that has an active Red    *)
(* neighbour, which stays as it was.                                       *)
C4_Witness ==
    /\ BlueOnRed
    /\ ~obs.pre.ball.freezeReady
    /\ obs.pre.bricks[obs.hit.struck].hitPoints = 2
    /\ ~bricks[obs.hit.struck].active
    /\ obs.hit.bricksBroken = 1
    /\ \E k \in Indices(bricks) :
          /\ Adjacent(bricks[k], bricks[obs.hit.struck])
          /\ bricks[k].active
          /\ bricks[k].colorIndex = ColorIndexRed

RedOnFrozen ==
    /\ obs.op = "contact"
    /\ obs.pre.ball.colorIndex = ColorIndexRed
    /\ obs.pre.bricks[obs.hit.struck].frozen

OfKind(events, kind) == SelectSeq(events, LAMBDA e : e.kind = kind)

StruckCell == <<obs.pre.bricks[obs.hit.struck].row,
                obs.pre.bricks[obs.hit.struck].col>>

InBlock(b, cell) ==
    /\ b.row - cell[1] \in {0 - 1, 0, 1}
    /\ b.col - cell[2] \in {0 - 1, 0, 1}

(* C5: when an overloaded ball strikes a brick at (r,c), the struck brick  *)
(* is destroyed at once, overloaded is cleared and one AreaExplosion       *)
(* centred on (r,c) is scheduled with the AoE delay; while less than the   *)
(* delay has elapsed the explosion is pending with the remaining time, and *)
(* once the delay has elapsed it is no longer pending and no brick in rows *)
(* r-1..r+1, columns c-1..c+1 is active.                                   *)
C5_OverloadExplodesAfterDelay ==
    /\ (obs.op = "contact" /\ obs.pre.ball.overloaded) =>
          /\ bricks[obs.hit.struck] = AsDestroyed(obs.pre.bricks[obs.hit.struck])
          /\ ~ball.overloaded
          /\ OfKind(reactionEvents, OverloadAoE) =
                 <<ReactionEvent(StruckCell[1], StruckCell[2],
                                 OverloadAoEDelay, OverloadAoE)>>
    /\ (obs.op = "resolve" /\ obs.hit.reaction.overload) =>
          IF obs.elapsed >= OverloadAoEDelay
          THEN /\ OfKind(reactionEvents, OverloadAoE) = <<>>
               /\ \A j \in Indices(bricks) :
                     InBlock(bricks[j], StruckCell) => ~bricks[j].active
          ELSE OfKind(reactionEvents, OverloadAoE) =
                   <<ReactionEvent(StruckCell[1], StruckCell[2],
                                   OverloadAoEDelay - obs.elapsed, OverloadAoE)>>

(* The scheduler pass in which the explosion of an overloaded contact came *)
(* due, after an earlier pass in which it did not, and destroyed a brick   *)
(* diagonal to the struck cell.                                            *)
C5_Witness ==
    /\ obs.op = "resolve"
    /\ obs.hit.reaction.overload
    /\ obs.elapsed >= OverloadAoEDelay
    /\ obs.elapsed > obs.dt
    /\ OfKind(obs.pre.events, OverloadAoE) # <<>>
    /\ \E j \in Indices(bricks) :
          /\ obs.pre.bricks[j].active
          /\ ~bricks[j].active
          /\ Abs(bricks[j].row - StruckCell[1]) = 1
          /\ Abs(bricks[j].col - StruckCell[2]) = 1
          /\ \A k \in 1 .. Len(obs.pre.events) :
                obs.pre.events[k].kind = SurgeChain =>
                    <<obs.pre.events[k].row, obs.pre.events[k].col>> #
                        <<bricks[j].row, bricks[j].col>>

SurgePair ==
    /\ obs.op = "contact"
    /\ IsPair(obs.pre.ball.colorIndex,
              obs.pre.bricks[obs.hit.struck].colorIndex,
              ColorIndexPurple, ColorIndexBlue)

(* The chain steps a Surge at the struck cell owes: one for each cell on   *)
(* the four diagonal rays that holds a brick active in bs, timed by its    *)
(* distance from the struck cell.                                          *)
RayEvents(bs, cell) ==
    {ReactionEvent(bs[j].row, bs[j].col,
                   Abs(bs[j].row - cell[1]) * SurgeChainStepDelay, SurgeChain) :
        j \in {k \in Indices(bs) :
                  /\ bs[k].active
                  /\ Abs(bs[k].row - cell[1]) = Abs(bs[k].col - cell[2])
                  /\ bs[k].row # cell[1]}}

SurgeSchedulesRays ==
    LET chain == OfKind(reactionEvents, SurgeChain)
    IN  /\ bricks[obs.hit.struck] = AsDestroyed(obs.pre.bricks[obs.hit.struck])
        /\ {chain[k] : k \in 1 .. Len(chain)} = RayEvents(bricks, StruckCell)
        /\ Len(chain) = Cardinality(RayEvents(bricks, StruckCell))

(* C7 as stated: when the ball and brick elements are {Purple, Blue} in    *)
(* either order, the struck brick is destroyed at once and chain steps are *)
(* scheduled for exactly the active bricks on the four diagonal rays, each *)
(* with timer = distance x the per-step delay.                             *)
C7_SurgeRays == SurgePair => SurgeSchedulesRays

(* C7, amended: the same, for a ball that does not carry freezeReady.      *)
C7_SurgeRaysWithoutFreeze ==
    (SurgePair /\ ~obs.pre.ball.freezeReady) =>
        /\ obs.hit.reaction.surge
        /\ SurgeSchedulesRays
        /\ \A j \in Indices(bricks) :
              j # obs.hit.struck => bricks[j] = obs.pre.bricks[j]

(* A Surge that scheduled chain steps at distances 1 and 2 on one ray.     *)
C7_Witness ==
    /\ SurgePair
    /\ ~obs.pre.ball.freezeReady
    /\ \E e, f \in RayEvents(bricks, StruckCell) :
          /\ e.timer = SurgeChainStepDelay
          /\ f.timer = 2 * SurgeChainStepDelay
          /\ f.row - StruckCell[1] = 2 * (e.row - StruckCell[1])
          /\ f.col - StruckCell[2] = 2 * (e.col - StruckCell[2])
          /\ \E k, m \in 1 .. Len(reactionEvents) :
                k < m /\ reactionEvents[k] = e /\ reactionEvents[m] = f

(* The pending events of the pass just made that came due in it.          *)
DueEvents ==
    {k \in 1 .. Len(obs.pre.events) : obs.pre.events[k].timer - obs.dt <= 0}

(* Event e is aimed at brick b.                                            *)
AimedAt(e, b) ==
    IF e.kind = OverloadAoE THEN InBlock(b, <<e.row, e.col>>)
    ELSE b.row = e.row /\ b.col = e.col

(* Event e has no active brick to act on in bs.                            *)
NoTarget(e, bs) == \A j \in Indices(bs) : AimedAt(e, bs[j]) => ~bs[j].active

RECURSIVE Without(_, _, _)
Without(events, drop, k) ==
    IF k > Len(events) THEN <<>>
    ELSE (IF k \in drop THEN <<>> ELSE <<events[k]>>)
             \o Without(events, drop, k + 1)

(* C8: resolving an expired event whose target is already inactive is a    *)
(* no-op. After a scheduler pass the pending list is the list of events    *)
(* not yet due, in order, with their timers reduced; the bricks destroyed  *)
(* are exactly the active bricks some due event is aimed at and the score  *)
(* grows by their number, so a due event with no active target changes no  *)
(* brick and adds 0; and the pass ends as the pass over the list without   *)
(* the due events that had no active target would have ended.              *)
C8_ExpiredEventWithoutTarget ==
    obs.op = "resolve" =>
        LET pre == obs.pre.bricks
            evs == obs.pre.events
            hit == {j \in Indices(pre) :
                       /\ pre[j].active
                       /\ \E k \in DueEvents : AimedAt(evs[k], pre[j])}
            idle == {k \in DueEvents : NoTarget(evs[k], pre)}
            other == ResolveReactionEvents(obs.dt, Without(evs, idle, 1), pre)
        IN  /\ reactionEvents =
                   Without([k \in 1 .. Len(evs) |->
                               [evs[k] EXCEPT !.timer = evs[k].timer - obs.dt]],
                           DueEvents, 1)
            /\ \A j \in Indices(pre) :
                  bricks[j] = IF j \in hit THEN AsDestroyed(pre[j]) ELSE pre[j]
            /\ obs.removed = Cardinality(hit)
            /\ score = obs.pre.score + Cardinality(hit)
            /\ other.bricks = bricks
            /\ other.removed = obs.removed
            /\ other.events = reactionEvents

(* A pass in which a chain step aimed at a destroyed brick and an          *)
(* explosion with no active brick in its block both came due, while an     *)
(* active brick stood elsewhere: nothing changed and both were removed.    *)
C8_Witness ==
    /\ obs.op = "resolve"
    /\ \E k, m \in DueEvents :
          /\ obs.pre.events[k].kind = SurgeChain
          /\ obs.pre.events[m].kind = OverloadAoE
          /\ NoTarget(obs.pre.events[k], obs.pre.bricks)
          /\ NoTarget(obs.pre.events[m], obs.pre.bricks)
    /\ \E j \in Indices(bricks) : obs.pre.bricks[j].active
    /\ bricks = obs.pre.bricks
    /\ score = obs.pre.score
    /\ reactionEvents = <<>>

RestingOnPaddle(b) ==
    /\ ~b.inPlay
    /\ b.colorIndex = NoColor
    /\ b.velocity = ZeroVelocity
    /\ ~b.overloaded
    /\ ~b.superconduct
    /\ ~b.frozen
    /\ ~b.freezeReady

(* C10: when the ball passes below the screen during a frame, lives        *)
(* decrease by exactly 1 and the ball is reset to rest on the paddle:      *)
(* inPlay false, element None, velocity zero, and overloaded,              *)
(* superconduct, frozen and freezeReady all false. This is the state right *)
(* after the fall is handled; the ball is still so when the frame ends,    *)
(* and so are the lives unless the run is restarted in the same frame.     *)
C10_FallCostsOneLife ==
    obs.fell =>
        /\ obs.mid.lives = obs.pre.lives - 1
        /\ RestingOnPaddle(obs.mid.ball)
        /\ RestingOnPaddle(ball)
        /\ ~obs.restarted => lives = obs.pre.lives - 1

(* A frame in which an overloaded Red ball in flight fell below the        *)
(* screen and the last life went with it.                                  *)
C10_Witness ==
    /\ obs.fell
    /\ obs.pre.ball.inPlay
    /\ obs.pre.ball.overloaded
    /\ obs.pre.ball.colorIndex = ColorIndexRed
    /\ obs.pre.ball.velocity # ZeroVelocity
    /\ obs.pre.lives = InitialLives
    /\ lives = 0
    /\ gameOver
    /\ RestingOnPaddle(ball)

(* C1: in every reachable state, every brick with active = false has      *)
(* hitPoints = 0 and frozen = false.                                       *)
C1_InactiveBricksAreCleared ==
    \A j \in Indices(bricks) :
        ~bricks[j].active => bricks[j].hitPoints = 0 /\ ~bricks[j].frozen

(* The state after a frame in which a freezing ball froze a cluster and    *)
(* shattered it: bricks that were frozen in that contact lie destroyed     *)
(* next to a brick that is still active.                                   *)
C1_Witness ==
    /\ obs.op = "frame"
    /\ obs.hit.reaction.freeze
    /\ obs.hit.reaction.shatter
    /\ obs.hit.bricksBroken >= 2
    /\ Cardinality({j \in Indices(bricks) : ~bricks[j].active}) >= 2
    /\ obs.hit.struck \in Indices(bricks)
    /\ ~bricks[obs.hit.struck].active
    /\ \E k \in Indices(bricks) : bricks[k].active

NewWave(bs) ==
    /\ bs # <<>>
    /\ \A j \in Indices(bs) :
           /\ bs[j].active /\ bs[j].hitPoints = 2
           /\ ~bs[j].cracked /\ ~bs[j].frozen

(* C11: in the frame in which the last active brick of the field goes,     *)
(* through the brick contact or through a resolved event, the field is a   *)
(* newly generated wave, the ball's speed is 1.15 times the speed it had   *)
(* when the frame began, and the ball rests on the paddle, not in play.    *)
C11_ClearedFieldStartsNewWave ==
    obs.cleared # "none" =>
        /\ NewWave(bricks)
        /\ ball.speed = SpeedUp(obs.pre.ball.speed)
        /\ RestingOnPaddle(ball)
        /\ reactionEvents = <<>>
        /\ score > obs.pre.score

C11_Witness ==
    /\ obs.cleared = "event"
    /\ CountActiveBricks(obs.pre.bricks) > 0
    /\ obs.pre.ball.inPlay
    /\ NewWave(bricks)
    /\ ball.speed = SpeedUp(obs.pre.ball.speed)

GreenBricks(bs) ==
    {j \in Indices(bs) : bs[j].active /\ bs[j].colorIndex = ColorIndexGreen}

AsInfused(b, element) ==
    [b EXCEPT !.colorIndex = element, !.hitPoints = Max(b.hitPoints, 2),
              !.cracked = FALSE]

InfuseContact ==
    /\ obs.op = "contact"
    /\ obs.pre.ball.colorIndex # ColorIndexGreen
    /\ ~obs.pre.ball.overloaded
    /\ ~obs.pre.ball.freezeReady
    /\ obs.pre.bricks[obs.hit.struck].colorIndex = ColorIndexGreen

(* C12: when a ball that is not Green, not overloaded and not freezeReady  *)
(* strikes a Green brick, every brick of the 4-connected component of      *)
(* active Green bricks of the struck brick takes the ball's element, stays  *)
(* active and ends with max(hitPoints, 2) hit points, every other brick is *)
(* unchanged, and no brick is destroyed by the contact.                    *)
C12_InfuseRecoloursComponent ==
    InfuseContact =>
        LET pre == obs.pre.bricks
            comp == Closure(pre, GreenBricks(pre), {obs.hit.struck})
        IN  /\ Len(bricks) = Len(pre)
            /\ \A j \in Indices(pre) :
                  bricks[j] = IF j \in comp
                              THEN AsInfused(pre[j], obs.pre.ball.colorIndex)
                              ELSE pre[j]
            /\ bricks[obs.hit.struck].active
            /\ bricks[obs.hit.struck].hitPoints >= 2
            /\ obs.hit.bricksBroken = 0
            /\ score = obs.pre.score

(* A Blue ball struck a cracked Green brick with a Green neighbour and a   *)
(* Red neighbour: both Green bricks are Blue now, the Red one is as it was. *)
C12_Witness ==
    /\ InfuseContact
    /\ obs.pre.ball.colorIndex = ColorIndexBlue
    /\ obs.pre.bricks[obs.hit.struck].cracked
    /\ bricks[obs.hit.struck].colorIndex = ColorIndexBlue
    /\ \E j, k \in Indices(bricks) :
          /\ j # obs.hit.struck
          /\ obs.pre.bricks[j].colorIndex = ColorIndexGreen
          /\ bricks[j].colorIndex = ColorIndexBlue
          /\ obs.pre.bricks[k].colorIndex = ColorIndexRed
          /\ Adjacent(bricks[k], bricks[obs.hit.struck])
          /\ bricks[k] = obs.pre.bricks[k]

(* v with exactly one of its two components negated.                       *)
OneNegated(v, w) ==
    \/ w[1] = 0 - v[1] /\ w[2] = v[2]
    \/ w[1] = v[1] /\ w[2] = 0 - v[2]

LiquefyContact ==
    /\ obs.op = "contact"
    /\ obs.pre.ball.colorIndex = ColorIndexLightBlue
    /\ ~obs.pre.ball.freezeReady
    /\ obs.pre.bricks[obs.hit.struck].colorIndex = ColorIndexRed

(* C13: when a LightBlue ball without freezeReady strikes a Red brick, the *)
(* brick is not destroyed: it is active with element Blue, hit points      *)
(* max(previous, 2) and cracked false, no other brick changes, nothing is  *)
(* counted as broken, and the ball bounces (one velocity component is      *)
(* negated) unless it is superconducting.                                  *)
C13_LiquefyKeepsBrick ==
    LiquefyContact =>
        LET pre == obs.pre.bricks
            i == obs.hit.struck
        IN  /\ bricks = [pre EXCEPT ![i] =
                            [pre[i] EXCEPT !.colorIndex = ColorIndexBlue,
                                           !.hitPoints = Max(pre[i].hitPoints, 2),
                                           !.cracked = FALSE]]
            /\ bricks[i].active
            /\ obs.hit.bricksBroken = 0
            /\ reactionEvents = obs.pre.events
            /\ ~obs.pre.ball.superconduct =>
                   OneNegated(obs.pre.ball.velocity, ball.velocity)

(* A LightBlue ball that is not superconducting struck a cracked Red       *)
(* brick: the brick is Blue, whole and active, and the ball has bounced.   *)
C13_Witness ==
    /\ LiquefyContact
    /\ ~obs.pre.ball.superconduct
    /\ obs.pre.bricks[obs.hit.struck].cracked
    /\ obs.pre.bricks[obs.hit.struck].hitPoints = 1
    /\ bricks[obs.hit.struck].active
    /\ bricks[obs.hit.struck].colorIndex = ColorIndexBlue
    /\ bricks[obs.hit.struck].hitPoints = 2
    /\ ball.velocity # obs.pre.ball.velocity

SwirlContact ==
    /\ obs.op = "contact"
    /\ obs.pre.ball.colorIndex = ColorIndexGreen
    /\ obs.pre.bricks[obs.hit.struck].colorIndex \notin {ColorIndexGreen, NoColor}

FrozenBricks(bs) == {j \in Indices(bs) : bs[j].active /\ bs[j].frozen}

(* The bricks that are frozen when the contact reaches the test of line    *)
(* 746: those frozen before it and those the contact itself has frozen.    *)
FrozenAtTest ==
    LET pre == obs.pre.bricks
        i == obs.hit.struck
    IN  FrozenBricks(pre)
        \cup (IF obs.pre.ball.freezeReady /\ pre[i].colorIndex # NoColor
              THEN Closure(pre, SameElement(pre, i), {i})
              ELSE {})

ShatterContact ==
    /\ obs.op = "contact"
    /\ obs.pre.ball.colorIndex # ColorIndexRed
    /\ obs.hit.struck \in FrozenAtTest

(* C15: when a ball that is not Red strikes a frozen brick, the struck     *)
(* brick and every frozen active brick joined to it by a chain of          *)
(* 4-neighbouring frozen active bricks are destroyed, every other brick is *)
(* unchanged, and the contact counts 1 plus the number of neighbours       *)
(* shattered.                                                              *)
C15_ShatterExactlyFrozenCluster ==
    ShatterContact =>
        LET pre == obs.pre.bricks
            comp == Closure(pre, FrozenAtTest, {obs.hit.struck})
        IN  /\ Len(bricks) = Len(pre)
            /\ \A j \in Indices(pre) :
                  bricks[j] = IF j \in comp THEN AsDestroyed(pre[j]) ELSE pre[j]
            /\ obs.hit.bricksBroken = 1 + Cardinality(comp \ {obs.hit.struck})
            /\ score = obs.pre.score + Cardinality(comp)

(* A ball struck a brick that was frozen before the contact, at the end of *)
(* a chain of two frozen bricks with an unfrozen neighbour: both frozen    *)
(* bricks are gone, the neighbour is as it was.                            *)
C15_Witness ==
    /\ ShatterContact
    /\ obs.pre.bricks[obs.hit.struck].frozen
    /\ obs.hit.bricksBroken = 2
    /\ \E j, k \in Indices(bricks) :
          /\ j # obs.hit.struck
          /\ obs.pre.bricks[j].frozen /\ ~bricks[j].active
          /\ Adjacent(bricks[k], bricks[j])
          /\ bricks[k].active /\ bricks[k] = obs.pre.bricks[k]

(* None of the rules 1 to 8 of the reaction table applies to the contact   *)
(* of ball b with brick k.                                                 *)
NoRuleApplies(b, k) ==
    /\ ~(b.freezeReady /\ k.colorIndex # NoColor)
    /\ ~(b.colorIndex = ColorIndexBlue /\ k.colorIndex = ColorIndexRed)
    /\ ~(b.colorIndex = ColorIndexLightBlue /\ k.colorIndex = ColorIndexRed)
    /\ ~(b.colorIndex = ColorIndexPurple /\ k.colorIndex = ColorIndexBlue)
    /\ ~(b.colorIndex = ColorIndexBlue /\ k.colorIndex = ColorIndexPurple)
    /\ ~(b.colorIndex # ColorIndexGreen /\ k.colorIndex = ColorIndexGreen)
    /\ ~(b.colorIndex = ColorIndexGreen
            /\ k.colorIndex \notin {ColorIndexGreen, NoColor})
    /\ ~b.overloaded
    /\ ~k.frozen

DefaultContact ==
    /\ obs.op = "contact"
    /\ NoRuleApplies(obs.pre.ball, obs.pre.bricks[obs.hit.struck])

(* C16: when no reaction rule applies to a brick contact, the struck       *)
(* brick loses exactly one hit point; at 0 it is destroyed, otherwise it   *)
(* stays active and is marked cracked; no other brick changes. A brick     *)
(* with 2 hit points is left active and cracked with 1, a brick with 1 is  *)
(* destroyed.                                                              *)
C16_DefaultHitTakesOnePoint ==
    DefaultContact =>
        LET pre == obs.pre.bricks
            i == obs.hit.struck
            left == pre[i].hitPoints - 1
        IN  /\ bricks = [pre EXCEPT ![i] =
                            IF left = 0 THEN AsDestroyed(pre[i])
                            ELSE [pre[i] EXCEPT !.hitPoints = left,
                                                !.cracked = TRUE]]
            /\ pre[i].hitPoints \in {1, 2}
            /\ pre[i].hitPoints = 2 =>
                   bricks[i].active /\ bricks[i].cracked
                       /\ bricks[i].hitPoints = 1
            /\ pre[i].hitPoints = 1 => ~bricks[i].active
            /\ obs.hit.bricksBroken = IF left = 0 THEN 1 ELSE 0
            /\ reactionEvents = obs.pre.events

(* The second default hit on a brick that was created fresh: the first hit *)
(* left it cracked with 1 hit point, this one destroys it.                 *)
C16_Witness ==
    /\ DefaultContact
    /\ obs.pre.bricks[obs.hit.struck].cracked
    /\ obs.pre.bricks[obs.hit.struck].hitPoints = 1
    /\ ~bricks[obs.hit.struck].active
    /\ obs.hit.bricksBroken = 1

(* The pair of the ball's element before a bounce and the paddle's        *)
(* element is the pair of x and y, in either order.                        *)
Pairing(old, new, x, y) == {old, new} = {x, y}

(* C17: after every ball-paddle contact the ball's element is the          *)
(* paddle's element, overloaded is true iff the ball's element before the  *)
(* bounce and the paddle's element are Purple and Red in either order,     *)
(* superconduct iff they are Purple and LightBlue, and freezeReady and     *)
(* frozen iff they are Blue and LightBlue.                                 *)
C17_BounceArmsFlagsFromPair ==
    obs.hit.bounce.hitPaddle =>
        LET old == obs.hit.bounce.before.colorIndex
            new == paddle.colorIndex
            b == obs.hit.bounce.ball
        IN  /\ b.colorIndex = new
            /\ b.overloaded <=>
                   Pairing(old, new, ColorIndexPurple, ColorIndexRed)
            /\ b.superconduct <=>
                   Pairing(old, new, ColorIndexPurple, ColorIndexLightBlue)
            /\ b.freezeReady <=>
                   Pairing(old, new, ColorIndexBlue, ColorIndexLightBlue)
            /\ b.frozen <=>
                   Pairing(old, new, ColorIndexBlue, ColorIndexLightBlue)

(* A LightBlue ball bounced on a Blue paddle: the pair in the order that   *)
(* is not the one the names suggest, and the freeze is armed.              *)
C17_Witness ==
    /\ obs.hit.bounce.hitPaddle
    /\ obs.hit.bounce.before.colorIndex = ColorIndexLightBlue
    /\ paddle.colorIndex = ColorIndexBlue
    /\ obs.hit.bounce.ball.frozen
    /\ obs.hit.bounce.ball.freezeReady
    /\ ~obs.hit.bounce.ball.overloaded

AtMostOneArmed(b) ==
    Cardinality({f \in {"overloaded", "superconduct", "freezeReady"} : b[f]})
        <= 1

(* C18: in every state at most one of the ball's flags overloaded,         *)
(* superconduct and freezeReady is true, between frames and right after    *)
(* the paddle bounce of a frame.                                           *)
C18_AtMostOneFlagArmed ==
    /\ AtMostOneArmed(ball)
    /\ AtMostOneArmed(obs.hit.bounce.ball)

(* A ball that carried superconduct bounced on the Red paddle and is       *)
(* overloaded now, and no longer superconducting.                          *)
C18_Witness ==
    /\ obs.hit.bounce.hitPaddle
    /\ obs.hit.bounce.before.superconduct
    /\ obs.hit.bounce.ball.overloaded
    /\ ball.overloaded
    /\ ~ball.superconduct

(* C19: a brick contact of a superconducting ball leaves both components   *)
(* of its velocity as they were, whichever rule fires, and leaves          *)
(* superconduct true; a brick contact of a ball that is not                *)
(* superconducting negates exactly one component of its velocity.          *)
C19_SuperconductSkipsBounce ==
    obs.op = "contact" =>
        IF obs.pre.ball.superconduct
        THEN ball.velocity = obs.pre.ball.velocity /\ ball.superconduct
        ELSE /\ OneNegated(obs.pre.ball.velocity, ball.velocity)
             /\ ball.velocity # obs.pre.ball.velocity
             /\ ~ball.superconduct

(* The second contact of a superconducting Purple ball: a Surge on a Blue  *)
(* brick, after which the ball flies on as before, still superconducting.  *)
C19_Witness ==
    /\ obs.op = "contact"
    /\ obs.pre.ball.superconduct
    /\ obs.pre.score > 0
    /\ obs.hit.reaction.surge
    /\ obs.hit.bricksBroken = 1
    /\ ball.velocity = obs.pre.ball.velocity
    /\ ball.velocity # ZeroVelocity
    /\ ball.superconduct

(* C20: a paddle bounce that arms the freeze leaves the ball with zero     *)
(* velocity and the velocity of the bounce in storedVelocity; a frame      *)
(* that begins and goes on with the ball frozen leaves it on the paddle    *)
(* with zero velocity (where it is, when the frame is paused) and          *)
(* processes no wall, paddle or brick collision;                           *)
(* the ball thaws in the frame in which the time counted over unpaused     *)
(* frames reaches the freeze duration, with its velocity equal to the      *)
(* stored velocity and freezeReady still true.                             *)
C20_FreezeHoldsAndRestores ==
    /\ obs.hit.bounce.hitPaddle /\ obs.hit.bounce.ball.frozen =>
           /\ obs.hit.bounce.ball.velocity = ZeroVelocity
           /\ obs.hit.bounce.ball.storedVelocity
                  = <<obs.hit.bounce.relative, 0 - 1>>
           /\ obs.hit.bounce.ball.freezeTimer = FreezeDuration
           /\ obs.hit.bounce.ball.freezeReady
           /\ obs.hit.struck = 0
    /\ obs.freeze.was /\ obs.freeze.after.frozen =>
           /\ obs.elapsed < FreezeDuration
           /\ obs.hit = NoHit
           /\ IF obs.freeze.dt = 0
              THEN obs.freeze.after = obs.freeze.before
              ELSE obs.freeze.after.pos = "paddle"
           /\ obs.freeze.after.velocity = ZeroVelocity
           /\ obs.freeze.after.storedVelocity
                  = obs.freeze.before.storedVelocity
           /\ ball.pos = obs.freeze.after.pos
           /\ ball.velocity = ZeroVelocity
    /\ obs.freeze.was /\ ~obs.freeze.after.frozen =>
           /\ obs.elapsed >= FreezeDuration
           /\ obs.elapsed - obs.freeze.dt < FreezeDuration
           /\ obs.freeze.after.inPlay
           /\ obs.freeze.after.velocity = obs.freeze.before.storedVelocity
           /\ obs.freeze.after.velocity # ZeroVelocity
           /\ obs.freeze.after.freezeReady

(* The ball thaws after frames of 0.5 and 1.0 s and a paused frame, with   *)
(* the velocity of a bounce off the paddle's side, still freezeReady.      *)
C20_Witness ==
    /\ obs.freeze.was
    /\ ~obs.freeze.after.frozen
    /\ obs.freeze.dt = 50
    /\ obs.elapsed = FreezeDuration
    /\ obs.freeze.after.velocity = <<1, 0 - 1>>
    /\ obs.freeze.after.freezeReady
    /\ ~ball.frozen

(* The pending events of the pass just made, with their timers reduced by  *)
(* the time of the pass.                                                   *)
Decremented ==
    [k \in 1 .. Len(obs.pre.events) |->
        [obs.pre.events[k] EXCEPT !.timer = obs.pre.events[k].timer - obs.dt]]

(* The events from the k-th on that are due, each applied once, in order.  *)
RECURSIVE ApplyDue(_, _, _)
ApplyDue(events, k, acc) ==
    IF k > Len(events) THEN acc
    ELSE IF events[k].timer <= 0
         THEN LET r == ApplyEvent(acc.bricks, events[k])
              IN  ApplyDue(events, k + 1,
                           [bricks |-> r.bricks, count |-> acc.count + r.count])
         ELSE ApplyDue(events, k + 1, acc)

(* C21: a scheduler pass reduces the timer of every pending event by the   *)
(* elapsed time, applies and removes every event whose timer is then <= 0  *)
(* and keeps the others queued in their order: the list after the pass is  *)
(* the list of reduced events without the due ones, none of its timers is  *)
(* <= 0, and the bricks and the count returned are those of applying each  *)
(* due event exactly once, in list order.                                  *)
C21_TickAppliesDueEventsOnce ==
    obs.op = "resolve" =>
        LET due == {k \in 1 .. Len(Decremented) : Decremented[k].timer <= 0}
            once == ApplyDue(Decremented, 1,
                             [bricks |-> obs.pre.bricks, count |-> 0])
        IN  /\ reactionEvents = Without(Decremented, due, 1)
            /\ Len(reactionEvents) + Cardinality(due) = Len(obs.pre.events)
            /\ \A k \in 1 .. Len(reactionEvents) : reactionEvents[k].timer > 0
            /\ bricks = once.bricks
            /\ obs.removed = once.count

(* A pass over three events in which the middle one came due exactly (its  *)
(* timer reached 0) and destroyed its brick, and the two different events  *)
(* around it stayed queued, in their order.                                *)
C21_Witness ==
    /\ obs.op = "resolve"
    /\ Len(obs.pre.events) = 3
    /\ Decremented[1].timer > 0
    /\ Decremented[2].timer = 0
    /\ Decremented[3].timer > 0
    /\ Decremented[1] # Decremented[3]
    /\ reactionEvents = <<Decremented[1], Decremented[3]>>
    /\ obs.removed >= 1
    /\ bricks # obs.pre.bricks

(* The bricks of bs that are active and lie on a diagonal ray from cell.   *)
OnRays(bs, cell) ==
    {j \in Indices(bs) :
        /\ bs[j].active
        /\ Abs(bs[j].row - cell[1]) = Abs(bs[j].col - cell[2])
        /\ bs[j].row # cell[1]}

(* The places in the pending list of the chain steps aimed at brick b.     *)
ChainStepsAt(b) ==
    {k \in 1 .. Len(reactionEvents) :
        /\ reactionEvents[k].kind = SurgeChain
        /\ reactionEvents[k].row = b.row
        /\ reactionEvents[k].col = b.col}

(* Bricks a and b lie on the same ray from cell, a nearer to it than b.    *)
NearerOnRay(a, b, cell) ==
    /\ Abs(a.row - cell[1]) < Abs(b.row - cell[1])
    /\ (a.row - cell[1]) * (b.row - cell[1]) > 0
    /\ (a.col - cell[2]) * (b.col - cell[2]) > 0

(* C22: of two chain steps one Surge scheduled on the same diagonal ray,   *)
(* the step for the nearer cell is resolved in the same scheduler pass as  *)
(* the step for the farther cell or in an earlier one, never later; and    *)
(* the step for a farther cell is resolved whatever became of the nearer   *)
(* cells: every brick that stood active on a ray when the Surge struck has *)
(* its step pending, with the time that remains, until distance x the step *)
(* delay has elapsed, and from then on the step is gone and the brick      *)
(* destroyed.                                                              *)
C22_ChainStepsResolveOutward ==
    (obs.op \in {"contact", "resolve"} /\ obs.hit.reaction.surge) =>
        LET bs0 == obs.hit.bricks
            ray == OnRays(bs0, StruckCell)
        IN  /\ \A j \in ray :
                  LET due == SurgeChainStepDelay
                                 * Abs(bs0[j].row - StruckCell[1])
                  IN  IF obs.elapsed >= due
                      THEN ChainStepsAt(bs0[j]) = {} /\ ~bricks[j].active
                      ELSE \E k \in 1 .. Len(reactionEvents) :
                              /\ ChainStepsAt(bs0[j]) = {k}
                              /\ reactionEvents[k].timer = due - obs.elapsed
            /\ \A i, j \in ray :
                  (NearerOnRay(bs0[i], bs0[j], StruckCell)
                       /\ ChainStepsAt(bs0[j]) = {})
                      => ChainStepsAt(bs0[i]) = {}

(* A pass in which the explosion of an overloaded Surge and the chain      *)
(* steps at distances 1 and 2 on one ray all came due: the explosion took  *)
(* the nearer brick, the nearer step found it destroyed, and the farther   *)
(* step still destroyed its brick.                                         *)
C22_Witness ==
    /\ obs.op = "resolve"
    /\ obs.hit.reaction.surge
    /\ obs.hit.reaction.overload
    /\ Len(obs.pre.events) = 3
    /\ reactionEvents = <<>>
    /\ obs.pre.events[1].kind = OverloadAoE
    /\ \E i, j \in OnRays(obs.pre.bricks, StruckCell) :
          /\ NearerOnRay(bricks[i], bricks[j], StruckCell)
          /\ AimedAt(obs.pre.events[1], bricks[i])
          /\ ~AimedAt(obs.pre.events[1], bricks[j])
          /\ AimedAt(obs.pre.events[2], bricks[i])
          /\ AimedAt(obs.pre.events[3], bricks[j])
          /\ ~bricks[i].active
          /\ ~bricks[j].active
    /\ obs.removed = 2

(* The active bricks of bs whose cell the ball overlapped in the contact.  *)
Overlapped(bs) ==
    {j \in Indices(bs) :
        bs[j].active /\ <<bs[j].row, bs[j].col>> \in obs.hit.overlap}

(* C23: in one frame at most one brick is struck. When the ball overlaps   *)
(* several active bricks, the struck brick is the first of them in array   *)
(* order, and the bricks, the ball, the pending events and the score come  *)
(* out as they do when the ball overlaps that brick alone; the velocity is *)
(* unchanged or has exactly one component negated; explosions are          *)
(* scheduled at the struck cell only; and when the hit is a plain hit      *)
(* every other brick, overlapped or not, is as it was. When the ball       *)
(* overlaps no active brick nothing changes.                               *)
C23_OneBrickStruckPerFrame ==
    (obs.op = "contact" /\ obs.hit.overlap # {}) =>
        LET pre == obs.pre.bricks
            over == Overlapped(pre)
        IN  IF over = {}
            THEN /\ obs.hit.struck = 0
                 /\ bricks = pre
                 /\ ball = obs.pre.ball
                 /\ reactionEvents = obs.pre.events
                 /\ score = obs.pre.score
            ELSE LET first == CHOOSE j \in over : \A k \in over : j <= k
                     alone == HandleBallBrickCollision(
                                  obs.pre.ball, pre,
                                  {<<pre[first].row, pre[first].col>>},
                                  obs.hit.axis, obs.pre.events)
                 IN  /\ obs.hit.struck = first
                     /\ bricks = alone.bricks
                     /\ ball = alone.ball
                     /\ reactionEvents = alone.events
                     /\ score = obs.pre.score + alone.bricksBroken
                     /\ \/ ball.velocity = obs.pre.ball.velocity
                        \/ OneNegated(obs.pre.ball.velocity, ball.velocity)
                     /\ \A k \in 1 .. Len(reactionEvents) :
                           reactionEvents[k].kind = OverloadAoE =>
                               /\ reactionEvents[k].row = pre[first].row
                               /\ reactionEvents[k].col = pre[first].col
                     /\ obs.hit.reaction.default =>
                           \A j \in Indices(pre) :
                               j # first => bricks[j] = pre[j]

(* A contact in which a ball without element overlapped three whole bricks *)
(* at once: the first one in array order was cracked, the other two are    *)
(* untouched, and the velocity was reflected once.                         *)
C23_Witness ==
    /\ obs.op = "contact"
    /\ Cardinality(Overlapped(obs.pre.bricks)) = 3
    /\ obs.pre.ball.colorIndex = NoColor
    /\ obs.hit.reaction.default
    /\ obs.hit.struck = 1
    /\ obs.pre.bricks[1].hitPoints = 2
    /\ bricks[1].hitPoints = 1
    /\ bricks[1].cracked
    /\ \A j \in Overlapped(obs.pre.bricks) :
          j # 1 => bricks[j] = obs.pre.bricks[j] /\ bricks[j].hitPoints = 2
    /\ OneNegated(obs.pre.ball.velocity, ball.velocity)
    /\ score = obs.pre.score

(* The ball entered the brick contact of the frame carrying freezeReady.   *)
ArmedContact == obs.op = "frame" /\ obs.hit.struck # 0 /\ obs.hit.freezeReady

(* The step is a frame with a paddle bounce under the Blue and LightBlue   *)
(* pair: the ball's element before the bounce and the paddle's.            *)
FreezingBounce ==
    /\ obs'.hit.bounce.hitPaddle
    /\ IsPair(obs'.hit.bounce.before.colorIndex,
              obs'.hit.bounce.ball.colorIndex,
              ColorIndexBlue, ColorIndexLightBlue)

(* C24: freezeReady is one-shot. After a brick contact the ball entered    *)
(* carrying freezeReady the flag is false, whether the struck brick had an *)
(* element (and its cluster was frozen) or none (and nothing was frozen);  *)
(* and the flag goes from false to true only in a frame with a paddle      *)
(* bounce under the Blue and LightBlue pair.                               *)
C24_FreezeReadyIsOneShot ==
    /\ [](ArmedContact => ~ball.freezeReady)
    /\ [][(~ball.freezeReady /\ ball'.freezeReady) => FreezingBounce]_vars

(* A frame in which a ball carrying freezeReady struck a neutral brick:    *)
(* nothing was frozen, the brick took a plain hit, and the flag is gone.   *)
C24_Witness ==
    /\ ArmedContact
    /\ ~obs.hit.reaction.freeze
    /\ obs.hit.reaction.default
    /\ bricks[obs.hit.struck].colorIndex = NoColor
    /\ bricks[obs.hit.struck].cracked
    /\ ~bricks[obs.hit.struck].frozen
    /\ ~ball.freezeReady

(* The step is a frame that generated a new field: the last active brick   *)
(* went in it, or the run was restarted in it.                             *)
Regenerates == obs'.cleared # "none" \/ obs'.restarted

(* The field after the step holds the bricks of the field before it, cell  *)
(* for cell, and none of them went from inactive to active.                *)
NoBrickAppears ==
    /\ Len(bricks') = Len(bricks)
    /\ \A j \in Indices(bricks) :
          /\ bricks'[j].row = bricks[j].row
          /\ bricks'[j].col = bricks[j].col
          /\ ~bricks[j].active => ~bricks'[j].active

(* C25: a brick, once inactive, never becomes active again, and a cell     *)
(* that holds no brick never gains one, through any reaction, flood fill   *)
(* or deferred event: in every step other than a frame in which the whole  *)
(* field is regenerated, at wave clear or at restart, the field keeps its  *)
(* bricks cell for cell and no inactive brick becomes active.              *)
C25_BricksNeverComeBack == [][~Regenerates => NoBrickAppears]_vars

(* A frame in which a Green brick took its element from the ball next to   *)
(* a brick destroyed earlier, which stayed destroyed.                      *)
C25_Witness ==
    /\ obs.op = "frame"
    /\ obs.cleared = "none"
    /\ ~obs.restarted
    /\ obs.hit.reaction.infuse
    /\ Len(bricks) = 2
    /\ \E j, k \in Indices(bricks) :
          /\ ~bricks[j].active
          /\ bricks[k].active
          /\ k = obs.hit.struck
    /\ score = 0

(* The runs into which the drawn sizes cut the columns of a row, from      *)
(* column col and draw k on: each run takes the size drawn for it, or what *)
(* is left of the row when that is less.                                   *)
RECURSIVE RunsFrom(_, _, _)
RunsFrom(size, col, k) ==
    IF col >= BrickCols THEN <<>>
    ELSE LET len == IF size[k] > BrickCols - col THEN BrickCols - col
                    ELSE size[k]
         IN  <<[first |-> col, len |-> len]>> \o RunsFrom(size, col + len, k + 1)

InRun(b, run) == run.first <= b.col /\ b.col < run.first + run.len

(* C26: whatever the random draws, the generated field has at most one     *)
(* brick per grid cell, every brick lies inside the BrickRows x BrickCols  *)
(* grid, the columns of each row fall into consecutive runs of 3 to 6      *)
(* columns (the last one clipped to what is left of the row) such that the *)
(* bricks of a row within one run share one element, a palette element or  *)
(* None, and every brick is active with hitPoints 2, not cracked and not   *)
(* frozen.                                                                 *)
C26_GeneratedFieldIsWellFormed ==
    obs.op = "create" =>
        LET runs == RunsFrom(obs.draws.size, 0, 1)
            n == Len(runs)
        IN  /\ \A i, j \in Indices(bricks) :
                  (bricks[i].row = bricks[j].row
                       /\ bricks[i].col = bricks[j].col) => i = j
            /\ \A j \in Indices(bricks) :
                  /\ bricks[j].row \in 0 .. (BrickRows - 1)
                  /\ bricks[j].col \in 0 .. (BrickCols - 1)
                  /\ bricks[j].colorIndex \in Elements
                  /\ bricks[j].active
                  /\ bricks[j].hitPoints = 2
                  /\ ~bricks[j].cracked
                  /\ ~bricks[j].frozen
            /\ n >= 1
            /\ runs[1].first = 0
            /\ runs[n].first + runs[n].len = BrickCols
            /\ \A k \in 1 .. (n - 1) :
                  /\ runs[k + 1].first = runs[k].first + runs[k].len
                  /\ runs[k].len \in ChunkMin .. ChunkMax
            /\ runs[n].len \in 1 .. ChunkMax
            /\ \A i, j \in Indices(bricks) :
                  (bricks[i].row = bricks[j].row
                       /\ \E k \in 1 .. n :
                              InRun(bricks[i], runs[k]) /\ InRun(bricks[j], runs[k]))
                      => bricks[i].colorIndex = bricks[j].colorIndex
            /\ \A i, j \in Indices(bricks) :
                  i < j => CellRank(<<bricks[i].row, bricks[i].col>>)
                               < CellRank(<<bricks[j].row, bricks[j].col>>)

(* A field of three bricks in the last row: two of one palette element at  *)
(* both ends of a first run of 6 columns, and one of another element in    *)
(* the last column, which is all that was left for the third run.          *)
C26_Witness ==
    /\ obs.op = "create"
    /\ Len(bricks) = 3
    /\ RunsFrom(obs.draws.size, 0, 1) =
           <<[first |-> 0, len |-> 6], [first |-> 6, len |-> 5],
             [first |-> 11, len |-> 1]>>
    /\ \A j \in Indices(bricks) : bricks[j].row = BrickRows - 1
    /\ bricks[1].col = 0
    /\ bricks[2].col = 5
    /\ bricks[3].col = BrickCols - 1
    /\ bricks[1].colorIndex \in Palette
    /\ bricks[2].colorIndex = bricks[1].colorIndex
    /\ bricks[3].colorIndex # bricks[1].colorIndex

(* C27: in every state, every brick with frozen = true is active, has      *)
(* element None, hitPoints 1 and cracked = false; and after the reactions  *)
(* of a contact (infuse, liquefy, plain damage among them) that still      *)
(* holds, and the two steps of the contact together come out as the        *)
(* contact does.                                                           *)
C27_FrozenBricksAreMasked ==
    /\ \A j \in Indices(bricks) :
          bricks[j].frozen =>
              /\ bricks[j].active
              /\ bricks[j].colorIndex = NoColor
              /\ bricks[j].hitPoints = 1
              /\ ~bricks[j].cracked
    /\ obs.op = "frozen" =>
          \A j \in Indices(bricks) :
              IF bricks[j].frozen
              THEN /\ obs.hit.reaction.freeze
                   /\ obs.pre.bricks[j].active
                   /\ obs.pre.bricks[j].colorIndex =
                          obs.pre.bricks[obs.hit.struck].colorIndex
              ELSE bricks[j] = obs.pre.bricks[j]
    /\ obs.op = "contact" =>
          LET whole == StrikeBrick(obs.pre.ball, obs.pre.bricks,
                                   obs.hit.struck,
                                   IF ball.velocity[1] # obs.pre.ball.velocity[1]
                                   THEN "x" ELSE "y",
                                   obs.pre.events)
          IN  whole.bricks = bricks /\ whole.events = reactionEvents

(* The field as the freeze of a contact leaves it: the struck whole Blue   *)
(* brick and a cracked Blue neighbour are frozen, masked to None with      *)
(* hitPoints 1 and no crack, next to a Green brick that kept its element.  *)
C27_Witness ==
    /\ obs.op = "frozen"
    /\ obs.hit.reaction.freeze
    /\ Len(bricks) = 3
    /\ bricks[obs.hit.struck].frozen
    /\ obs.pre.bricks[obs.hit.struck].hitPoints = 2
    /\ \E j, k \in Indices(bricks) :
          /\ j # obs.hit.struck
          /\ bricks[j].frozen
          /\ obs.pre.bricks[j].cracked
          /\ bricks[j].hitPoints = 1
          /\ ~bricks[j].cracked
          /\ bricks[j].colorIndex = NoColor
          /\ ~bricks[k].frozen
          /\ bricks[k].active
          /\ bricks[k].colorIndex = ColorIndexGreen

(* C28: whenever a new brick field is generated, at wave clear or at       *)
(* restart after game over, the list of pending events is empty when the   *)
(* frame ends.                                                             *)
C28_NewFieldHasNoPendingEvents ==
    (obs.op = "frame" /\ (obs.cleared # "none" \/ obs.restarted)) =>
        reactionEvents = <<>>

(* A frame of a restarted run (score 0, initial speed, ball resting on the *)
(* paddle since the restart) in which an explosion that was pending when   *)
(* the run was restarted came due: it destroyed every brick of the new     *)
(* field, the bricks were added to the new run's score and the next wave   *)
(* was generated.                                                          *)
C28_Witness ==
    /\ obs.op = "frame"
    /\ obs.cleared = "event"
    /\ ~obs.pre.ball.inPlay
    /\ obs.pre.ball.speed = InitialSpeed
    /\ obs.pre.score = 0
    /\ obs.pre.events # <<>>
    /\ NewWave(obs.pre.bricks)
    /\ score = Len(obs.pre.bricks)
    /\ ball.speed = SpeedUp(InitialSpeed)

(* The bricks that are active before the step and inactive after it.       *)
Lost == {j \in Indices(bricks) : bricks[j].active /\ ~bricks'[j].active}

(* C29: within a run the score grows by exactly the number of bricks that  *)
(* go from active to inactive. In a frame that keeps the field the score   *)
(* grows by the number of bricks the frame destroyed, by contact and by    *)
(* resolved events together, of which the contact counted its own; a frame *)
(* that destroys nothing (a freeze undone, an infusion, a liquefaction, a  *)
(* first plain hit) adds nothing; and a frame that clears the field adds   *)
(* the number of bricks that were still active. A restart sets the score   *)
(* to 0.                                                                   *)
C29_ScoreCountsDestroyedBricks ==
    [][IF obs'.restarted THEN score' = 0
       ELSE IF obs'.cleared # "none"
            THEN score' = score + CountActiveBricks(bricks)
            ELSE /\ Len(bricks') = Len(bricks)
                 /\ score' = score + Cardinality(Lost)
                 /\ obs'.hit.bricksBroken <= Cardinality(Lost)
                 /\ obs'.hit.bricksBroken > 0 => obs'.hit.struck \in Lost]_vars

(* A frame that cleared a field of three bricks from a score of 0: the     *)
(* contact of an overloaded ball destroyed and counted the struck brick,   *)
(* the explosion it scheduled came due in the same frame and destroyed the *)
(* other two, and the score is 3.                                          *)
C29_Witness ==
    /\ obs.op = "frame"
    /\ obs.cleared = "event"
    /\ obs.hit.reaction.overload
    /\ obs.hit.bricksBroken = 1
    /\ obs.pre.score = 0
    /\ CountActiveBricks(obs.pre.bricks) = 3
    /\ score = 3

====
